---- MODULE Spec2Model ----
(***************************************************************************)
(* Voice dialogue orchestrator: OrchestratorService.process_dialogue       *)
(* (STT -> LLM -> TTS under an asyncio.Semaphore) and the collaborator      *)
(* code it runs synchronously (LLMService.generate_response's validation,   *)
(* TTSService.validate_text).                                               *)
(*                                                                         *)
(* Time is counted in units of 100 ms, durations in milliseconds, texts     *)
(* are run-length records (leading whitespace, body, trailing whitespace),  *)
(* file names are sequences of characters.                                  *)
(***************************************************************************)
EXTENDS Integers, Sequences, FiniteSets, TLC

\* ---------------------------------------------------------------- bounds
NumRuns == 3
MaxCapacity == 2
PipelineRuns == 2
MaxNow == 2
MaxAppends == 3
MaxSessions == 1
NumCallers == 1
MaxSends == 3

Runs == 1..NumRuns

\* ------------------------------------------------------ program constants
AcquireTimeout == 1
ORCHESTRATOR_MIN_AUDIO_DURATION == 500
ORCHESTRATOR_MAX_AUDIO_DURATION == 300000
MAX_MESSAGE_LENGTH == 4000
MAX_CONVERSATION_MESSAGES == 20
MAX_CONVERSATIONS == 1000
CONVERSATION_TTL_MINUTES == 60
TTS_MAX_TEXT_LENGTH == 5000

SUPPORTED_FORMATS ==
    { <<".", "w", "a", "v">>, <<".", "m", "p", "3">>, <<".", "m", "4", "a">>,
      <<".", "w", "e", "b", "m">>, <<".", "f", "l", "a", "c">>,
      <<".", "o", "g", "g">> }

OrchestratorErrorCode ==
    { "INVALID_AUDIO_FORMAT", "AUDIO_TOO_SHORT", "AUDIO_TOO_LONG",
      "SPEECH_RECOGNITION_FAILED", "STT_SERVICE_UNAVAILABLE",
      "LLM_SERVICE_UNAVAILABLE", "LLM_RATE_LIMITED", "LLM_CONNECTION_ERROR",
      "TTS_SERVICE_UNAVAILABLE", "SYNTHESIS_FAILED", "PROCESSING_TIMEOUT",
      "TOO_MANY_REQUESTS" }

\* ------------------------------------------------------------------ texts
Text(l, b, t) == [lead |-> l, body |-> b, trail |-> t]

strip_nothing(t) == t

\* str.strip(): drops the leading and the trailing whitespace
strip(t) == [lead |-> 0, body |-> t.body, trail |-> 0]

\* len(str)
len(t) == t.lead + t.body + t.trail

\* ------------------------------------------------------------- file names
\* str.lower() on the characters the file names below use
lower(s) ==
    [i \in 1..Len(s) |->
        CASE s[i] = "W" -> "w"
          [] s[i] = "A" -> "a"
          [] s[i] = "V" -> "v"
          [] OTHER -> s[i]]

\* str.rfind("."), 0 when there is no dot (positions are 1-based here)
rfind_dot(s) ==
    LET dots == {i \in 1..Len(s) : s[i] = "."}
    IN  IF dots = {} THEN 0 ELSE CHOOSE i \in dots : \A j \in dots : j <= i

\* pathlib.PurePath.suffix of a name without directory separators
suffix(name) ==
    LET i == rfind_dot(name)
    IN  IF 1 < i /\ i < Len(name) THEN SubSeq(name, i, Len(name)) ELSE <<>>

validate_audio_format(filename, data_len) ==
    IF data_len = 0
    THEN FALSE
    ELSE lower(suffix(filename)) \in SUPPORTED_FORMATS

\* ------------------------------------------------- results of one run
NoResult == [kind |-> "none"]

Ok == [kind |-> "ok"]

\* OrchestratorError(error_code, message, details, retry_after); an absent
\* retry_after or details is the empty set, details are <<key, value>> pairs
OrchestratorError(code, details, retry) ==
    [kind |-> "error", error_code |-> code, details |-> details,
     retry_after |-> retry]

\* an exception that leaves process_dialogue without being an OrchestratorError
Raised(exc) == [kind |-> "raised", exc |-> exc]

NoDetails == {}

NoRetry == {}

\* ------------------------------------------- what a collaborator call did
NoRet == [kind |-> "none"]

Raise(exc, msg) == [kind |-> "raise", exc |-> exc, msg |-> msg]

SttRet(text, dur) == [kind |-> "ret", text |-> text, duration_ms |-> dur]

LlmRet(text) == [kind |-> "ret", text |-> text]

TtsRet == [kind |-> "ret"]

\* ------------------------------------------------------------ environments
wav == <<"a", ".", "w", "a", "v">>

\* the callers and the collaborators of a loaded server: every stage can fail
LoadEnv ==
    [clients  |-> Runs,
     requests |-> { [filename |-> wav, data_len |-> 1],
                    [filename |-> wav, data_len |-> 0] },
     stt      |-> { Raise("RuntimeError", <<"MODEL_NOT_LOADED">>),
                    SttRet(Text(0, 3, 0), 1000),
                    SttRet(Text(0, MAX_MESSAGE_LENGTH + 1, 0), 1000) },
     llm      |-> { Raise("RuntimeError", <<"ErrorCode", "LLM_RATE_LIMITED">>),
                    LlmRet(Text(0, 5, 0)) },
     tts      |-> { Raise("RuntimeError", <<"inference">>), TtsRet }]

\* three callers, collaborators that always succeed
NominalEnv ==
    [clients  |-> Runs \cap (1..3),
     requests |-> { [filename |-> wav, data_len |-> 1] },
     stt      |-> { SttRet(Text(0, 3, 0), 1000) },
     llm      |-> { LlmRet(Text(0, 5, 0)) },
     tts      |-> { TtsRet }]

\* few callers, every kind of request and of collaborator behaviour
PipelineEnv ==
    [clients  |-> Runs \cap (1..PipelineRuns),
     requests |-> { [filename |-> f, data_len |-> n] :
                      f \in { <<"a", ".", "W", "A", "V">>,
                              <<"a", ".", "t", "x", "t">>,
                              <<".", "w", "a", "v">>,
                              <<"w", "a", "v">> },
                      n \in {0, 1} },
     stt      |-> { Raise("RuntimeError", <<"MODEL_NOT_LOADED">>),
                    SttRet(Text(0, 0, 0), 1000),
                    SttRet(Text(2, 0, 0), 1000),
                    SttRet(Text(2, 0, 0), 200),
                    SttRet(Text(0, 3, 0), 200),
                    SttRet(Text(0, 3, 0), ORCHESTRATOR_MIN_AUDIO_DURATION),
                    SttRet(Text(0, 3, 0), ORCHESTRATOR_MAX_AUDIO_DURATION),
                    SttRet(Text(0, 3, 0), ORCHESTRATOR_MAX_AUDIO_DURATION + 1),
                    SttRet(Text(1, MAX_MESSAGE_LENGTH, 1), 1000),
                    SttRet(Text(0, MAX_MESSAGE_LENGTH + 1, 0), 1000) },
     llm      |-> { Raise("RuntimeError", <<"ErrorCode", "LLM_NOT_CONFIGURED">>),
                    Raise("RuntimeError", <<"ErrorCode", "LLM_RATE_LIMITED">>),
                    Raise("RuntimeError", <<"ErrorCode", "LLM_CONNECTION_ERROR">>),
                    Raise("RuntimeError", <<"ErrorCode", "LLM_API_ERROR">>),
                    Raise("RuntimeError", <<"ErrorCode", "LLM_PROCESSING_ERROR">>),
                    LlmRet(Text(0, 0, 0)),
                    LlmRet(Text(0, 5, 0)),
                    LlmRet(Text(0, TTS_MAX_TEXT_LENGTH + 1, 0)) },
     tts      |-> { Raise("RuntimeError", <<"inference">>), TtsRet }]

VARIABLES
    env,            \* callers and collaborator behaviours of this deployment
    stt_ready,      \* STTService.model_loaded
    llm_configured, \* LLMService.api_configured
    tts_ready,      \* TTSService.is_ready
    max_concurrent, \* ORCHESTRATOR_MAX_CONCURRENT (settings.orchestrator)
    sem_value,      \* OrchestratorService._semaphore._value
    sem_waiters,    \* OrchestratorService._semaphore._waiters, oldest first
    pc,             \* where each run of process_dialogue is
    req,            \* the arguments of each run
    waited,         \* time each run has spent waiting for the semaphore
    queued,         \* whether the run found the semaphore locked
    acquired,       \* permits the run acquired
    released,       \* times the run called _semaphore.release()
    calls,          \* the collaborator methods the run invoked, in order
    stt_ret,        \* what transcribe did in this run
    llm_ret,        \* what generate_response did in this run
    tts_ret,        \* what synthesize did in this run
    result          \* how the run ended

\* the services' own health state and the last report of get_status
VARIABLES
    llm_client,     \* LLMService._client is not None
    llm_last_error, \* LLMService._last_error is set
    tts_last_error, \* TTSService._last_error is set
    status,         \* the last OrchestratorStatus returned by get_status
    generate,       \* the generate_response call in progress, or how the
                    \* last one ended
    history,        \* per conversation, the successful calls made one after
                    \* the other on the record that is cached
    pools,          \* the _semaphore of STTService, LLMService, TTSService
    inner,          \* where each run is with the semaphore of its stage
    conversation_id,\* the conversation id each run has drawn
    prompts         \* the messages each run has sent to the API

\* the state of a run inside the services it calls
dialogue_vars == <<pools, inner, conversation_id, prompts>>

\* the services' state that the runs do not change
health_vars == <<llm_client, llm_last_error, tts_last_error, status, generate,
                 history>>

status_vars == <<llm_client, llm_last_error, tts_last_error, status,
                 generate, history, dialogue_vars>>

\* the conversation cache of the generator, the clock it reads, and what its
\* callers have done and seen
VARIABLES
    cache,             \* ConversationCache._cache, in insertion order
    max_messages,      \* ConversationCache._max_messages
    max_conversations, \* ConversationCache._max_conversations
    ttl,               \* ConversationCache._ttl
    now,               \* datetime.now()
    log,               \* per cached id, every turn appended to its record
    inserted,          \* the ids created so far while nothing else was called
    last               \* the last cache call and what it returned

cache_vars == <<cache, max_messages, max_conversations, ttl, now, log,
                inserted, last>>

sem_vars == <<sem_value, sem_waiters>>
\* the connection manager, its heartbeat tasks and the tasks that call it
VARIABLES
    connections,    \* ConnectionManager._connections (its session ids)
    ping_tasks,     \* ConnectionManager._ping_tasks (its session ids)
    ping,           \* per session, where its ping_loop task is
    caller,         \* per calling task, the manager call it is suspended in
    next_id,        \* how many session ids uuid4 has handed out
    returned,       \* the last manager call that came back, and how
    sent            \* per session, what its transport has been handed

ws_vars == <<connections, ping_tasks, ping, caller, next_id, returned, sent>>

base_vars == <<env, stt_ready, llm_configured, tts_ready, max_concurrent>>
svc_vars == <<env, stt_ready, llm_configured, tts_ready, max_concurrent,
              status_vars, cache_vars, ws_vars>>
ret_vars == <<stt_ret, llm_ret, tts_ret>>
run_vars == <<sem_value, sem_waiters, pc, req, waited, queued, acquired,
              released, calls, stt_ret, llm_ret, tts_ret, result>>
vars == <<env, stt_ready, llm_configured, tts_ready, max_concurrent,
          sem_value, sem_waiters, pc, req, waited, queued, acquired,
          released, calls, stt_ret, llm_ret, tts_ret, result, status_vars,
          cache_vars, ws_vars>>

ConversationIds == {"A", "B", "C", "D"}

NoCall == [op |-> "none"]

\* the cache as LLMService constructs it, not yet used
CacheIdle ==
    /\ cache = <<>>
    /\ max_messages = MAX_CONVERSATION_MESSAGES
    /\ max_conversations = MAX_CONVERSATIONS
    /\ ttl = CONVERSATION_TTL_MINUTES
    /\ now = 0
    /\ log = [i \in ConversationIds |-> <<>>]
    /\ inserted = [only |-> TRUE, ids |-> <<>>]
    /\ last = NoCall

Sessions == 1..MaxSessions

\* an id that uuid4 never hands out
Unknown == 0

Callers == 1..NumCallers

NoTask == [pc |-> "none", must_cancel |-> FALSE, loops |-> 0]

\* a transport nothing has been written to
NoWrites == [first |-> [type |-> "none"], calls |-> <<>>]

Idle == [pc |-> "idle"]

NoReturn == [op |-> "none"]

\* the manager as constructed: nobody connected, no heartbeat, no call made
WsIdle ==
    /\ connections = {}
    /\ ping_tasks = {}
    /\ ping = [s \in {Unknown} \cup Sessions |-> NoTask]
    /\ caller = [t \in Callers |-> Idle]
    /\ next_id = 0
    /\ returned = NoReturn
    /\ sent = [s \in {Unknown} \cup Sessions |-> NoWrites]

NoStatus == [status |-> "none"]

NoGenerate == [pc |-> "idle", out |-> "none"]

NoHistory == [ok |-> TRUE, calls |-> <<>>]

STT_MAX_CONCURRENT == 3
MAX_CONCURRENT_REQUESTS == 10
TTS_MAX_CONCURRENT == 3

\* no id drawn yet
NoId == 0

\* asyncio.Semaphore(n)
Semaphore(n) == [value |-> n, waiters |-> <<>>]

\* the semaphores of the three services with llm and tts permits for the
\* generator and the synthesizer, nobody using them
PoolsIdle(llm, tts) ==
    /\ pools = [stt |-> Semaphore(STT_MAX_CONCURRENT), llm |-> Semaphore(llm),
                tts |-> Semaphore(tts)]
    /\ inner = [r \in Runs |-> "none"]
    /\ conversation_id = [r \in Runs |-> NoId]
    /\ prompts = [r \in Runs |-> <<>>]

\* the generator's client exists when a key is configured, no service has
\* recorded an error and no status was asked for
StatusIdle ==
    /\ llm_client = llm_configured
    /\ llm_last_error = FALSE
    /\ tts_last_error = FALSE
    /\ status = NoStatus
    /\ generate = NoGenerate
    /\ history = [i \in ConversationIds |-> NoHistory]
    /\ PoolsIdle(MAX_CONCURRENT_REQUESTS, TTS_MAX_CONCURRENT)

NoReq == [filename |-> <<>>, data_len |-> 0]

InitRuns ==
    /\ sem_value = max_concurrent
    /\ sem_waiters = <<>>
    /\ pc = [r \in Runs |-> "idle"]
    /\ req = [r \in Runs |-> NoReq]
    /\ waited = [r \in Runs |-> 0]
    /\ queued = [r \in Runs |-> FALSE]
    /\ acquired = [r \in Runs |-> 0]
    /\ released = [r \in Runs |-> 0]
    /\ calls = [r \in Runs |-> <<>>]
    /\ stt_ret = [r \in Runs |-> NoRet]
    /\ llm_ret = [r \in Runs |-> NoRet]
    /\ tts_ret = [r \in Runs |-> NoRet]
    /\ result = [r \in Runs |-> NoResult]

\* a loaded server: services in any state of readiness, any configured capacity
Init ==
    /\ env = LoadEnv
    /\ stt_ready \in BOOLEAN
    /\ llm_configured \in BOOLEAN
    /\ tts_ready \in BOOLEAN
    /\ max_concurrent \in 1..MaxCapacity
    /\ InitRuns
    /\ StatusIdle
    /\ CacheIdle
    /\ WsIdle

\* ------------------------------------------------------ asyncio.Semaphore
locked_waiters_only(value, waiters) == Len(waiters) > 0

locked_always(value, waiters) == TRUE

\* Semaphore.locked(): no permit left, or somebody is queued already
locked(value, waiters) == value = 0 \/ Len(waiters) > 0

\* Semaphore._wake_up_next(): hand a permit to the oldest waiter that has not
\* been woken yet; its task resumes later
_wake_up_next(value, waiters, p) ==
    LET cand == {i \in 1..Len(waiters) : p[waiters[i]] = "waiting"}
    IN  IF cand = {}
        THEN [value |-> value, pc |-> p]
        ELSE LET i == CHOOSE i \in cand : \A j \in cand : i <= j
             IN  [value |-> value - 1,
                  pc |-> [p EXCEPT ![waiters[i]] = "woken"]]

\* Semaphore.release()
release(value, waiters, p) == _wake_up_next(value + 1, waiters, p)

\* deque.remove(fut)
remove(waiters, r) == SelectSeq(waiters, LAMBDA x : x # r)

\* --------------------------------------------- process_dialogue, by parts
precondition_error_readiness_first(request, stt_ok, llm_ok, tts_ok) ==
    IF ~stt_ok THEN "STT_SERVICE_UNAVAILABLE"
    ELSE IF ~llm_ok THEN "LLM_SERVICE_UNAVAILABLE"
    ELSE IF ~tts_ok THEN "TTS_SERVICE_UNAVAILABLE"
    ELSE IF ~validate_audio_format(request.filename, request.data_len)
    THEN "INVALID_AUDIO_FORMAT"
    ELSE ""

\* the checks before admission, "" when all of them pass
precondition_error(request, stt_ok, llm_ok, tts_ok) ==
    IF ~validate_audio_format(request.filename, request.data_len)
    THEN "INVALID_AUDIO_FORMAT"
    ELSE IF ~stt_ok THEN "STT_SERVICE_UNAVAILABLE"
    ELSE IF ~llm_ok THEN "LLM_SERVICE_UNAVAILABLE"
    ELSE IF ~tts_ok THEN "TTS_SERVICE_UNAVAILABLE"
    ELSE ""

too_many_requests_no_hint ==
    OrchestratorError("TOO_MANY_REQUESTS", NoDetails, NoRetry)

too_many_requests == OrchestratorError("TOO_MANY_REQUESTS", NoDetails, {5})

\* the bounds themselves rejected as well
_validate_audio_duration_inclusive(duration) ==
    IF duration <= ORCHESTRATOR_MIN_AUDIO_DURATION
    THEN OrchestratorError("AUDIO_TOO_SHORT",
            { <<"duration", duration>>,
              <<"min_duration", ORCHESTRATOR_MIN_AUDIO_DURATION>> }, NoRetry)
    ELSE IF duration >= ORCHESTRATOR_MAX_AUDIO_DURATION
    THEN OrchestratorError("AUDIO_TOO_LONG",
            { <<"duration", duration>>,
              <<"max_duration", ORCHESTRATOR_MAX_AUDIO_DURATION>> }, NoRetry)
    ELSE NoResult

_validate_audio_duration(duration) ==
    IF duration < ORCHESTRATOR_MIN_AUDIO_DURATION
    THEN OrchestratorError("AUDIO_TOO_SHORT",
            { <<"duration", duration>>,
              <<"min_duration", ORCHESTRATOR_MIN_AUDIO_DURATION>> }, NoRetry)
    ELSE IF duration > ORCHESTRATOR_MAX_AUDIO_DURATION
    THEN OrchestratorError("AUDIO_TOO_LONG",
            { <<"duration", duration>>,
              <<"max_duration", ORCHESTRATOR_MAX_AUDIO_DURATION>> }, NoRetry)
    ELSE NoResult

\* `code in str(e)` on the words of the exception's message
contains(msg, code) == \E i \in 1..Len(msg) : msg[i] = code

\* LLMService.generate_response up to its first await: NoRet when it goes on
\* to the API call
generate_response_check(message, configured) ==
    IF ~configured
    THEN Raise("RuntimeError", <<"ErrorCode", "LLM_NOT_CONFIGURED">>)
    ELSE IF len(message) = 0 \/ len(strip(message)) = 0
    THEN Raise("ValueError", <<"ErrorCode", "EMPTY_MESSAGE">>)
    ELSE IF len(message) > MAX_MESSAGE_LENGTH
    THEN Raise("ValueError", <<"ErrorCode", "MESSAGE_TOO_LONG">>)
    ELSE NoRet

\* TTSService.synthesize up to its first await
synthesize_check(text, model_loaded) ==
    LET stripped == strip(text)
    IN  IF len(stripped) = 0
        THEN Raise("ValueError", <<"empty">>)
        ELSE IF len(stripped) > TTS_MAX_TEXT_LENGTH
        THEN Raise("ValueError", <<"too", "long">>)
        ELSE IF ~model_loaded
        THEN Raise("RuntimeError", <<"not", "loaded">>)
        ELSE NoRet

\* except Exception around transcribe
map_stt_fault(f) ==
    OrchestratorError("STT_SERVICE_UNAVAILABLE", NoDetails, NoRetry)

\* except RuntimeError around generate_response; anything else passes through
map_llm_fault(f) ==
    IF f.exc = "RuntimeError"
    THEN IF contains(f.msg, "LLM_RATE_LIMITED")
         THEN OrchestratorError("LLM_RATE_LIMITED", NoDetails, {60})
         ELSE IF contains(f.msg, "LLM_CONNECTION_ERROR")
         THEN OrchestratorError("LLM_CONNECTION_ERROR", NoDetails, NoRetry)
         ELSE OrchestratorError("LLM_SERVICE_UNAVAILABLE", NoDetails, NoRetry)
    ELSE Raised(f.exc)

map_tts_fault_unavailable_only(f) ==
    OrchestratorError("TTS_SERVICE_UNAVAILABLE", NoDetails, NoRetry)

\* except ValueError / except Exception around synthesize
map_tts_fault(f) ==
    IF f.exc = "ValueError"
    THEN OrchestratorError("SYNTHESIS_FAILED", NoDetails, NoRetry)
    ELSE OrchestratorError("TTS_SERVICE_UNAVAILABLE", NoDetails, NoRetry)

after_transcribe_duration_first(b, configured) ==
    IF b.kind = "raise"
    THEN [res |-> map_stt_fault(b), called |-> <<>>, next |-> NoRet]
    ELSE LET recognized_text == strip(b.text)
             bad_duration == _validate_audio_duration(b.duration_ms)
             g == generate_response_check(recognized_text, configured)
         IN  IF bad_duration.kind # "none"
             THEN [res |-> bad_duration, called |-> <<>>, next |-> NoRet]
             ELSE IF len(recognized_text) = 0
             THEN [res |-> OrchestratorError("SPEECH_RECOGNITION_FAILED",
                                             NoDetails, NoRetry),
                   called |-> <<>>, next |-> NoRet]
             ELSE IF g.kind = "raise"
             THEN [res |-> map_llm_fault(g),
                   called |-> <<"generate_response">>, next |-> g]
             ELSE [res |-> NoResult,
                   called |-> <<"generate_response">>, next |-> NoRet]

\* what the run does when transcribe has behaved as b: the result it ends
\* with (NoResult when it goes on), the calls it makes, what the call of
\* generate_response did before its first await
after_transcribe(b, configured) ==
    IF b.kind = "raise"
    THEN [res |-> map_stt_fault(b), called |-> <<>>, next |-> NoRet]
    ELSE LET recognized_text == strip(b.text)
             bad_duration == _validate_audio_duration(b.duration_ms)
             g == generate_response_check(recognized_text, configured)
         IN  IF len(recognized_text) = 0
             THEN [res |-> OrchestratorError("SPEECH_RECOGNITION_FAILED",
                                             NoDetails, NoRetry),
                   called |-> <<>>, next |-> NoRet]
             ELSE IF bad_duration.kind # "none"
             THEN [res |-> bad_duration, called |-> <<>>, next |-> NoRet]
             ELSE IF g.kind = "raise"
             THEN [res |-> map_llm_fault(g),
                   called |-> <<"generate_response">>, next |-> g]
             ELSE [res |-> NoResult,
                   called |-> <<"generate_response">>, next |-> NoRet]

after_generate_retrying(b, model_loaded) ==
    IF b.kind = "raise"
    THEN [res |-> map_llm_fault(b), called |-> <<"generate_response">>,
          next |-> NoRet]
    ELSE LET s == synthesize_check(b.text, model_loaded)
         IN  IF s.kind = "raise"
             THEN [res |-> map_tts_fault(s),
                   called |-> <<"synthesize">>, next |-> s]
             ELSE [res |-> NoResult,
                   called |-> <<"synthesize">>, next |-> NoRet]

\* what the run does when the API call of generate_response has behaved as b
after_generate(b, model_loaded) ==
    IF b.kind = "raise"
    THEN [res |-> map_llm_fault(b), called |-> <<>>, next |-> NoRet]
    ELSE LET s == synthesize_check(b.text, model_loaded)
         IN  IF s.kind = "raise"
             THEN [res |-> map_tts_fault(s),
                   called |-> <<"synthesize">>, next |-> s]
             ELSE [res |-> NoResult,
                   called |-> <<"synthesize">>, next |-> NoRet]

\* what the run does when the inference of synthesize has behaved as b
after_synthesize(b) ==
    IF b.kind = "raise" THEN map_tts_fault(b) ELSE Ok

\* ---------------------------------------------------------------- actions
Finish_release_unless_raised(r, res) ==
    LET p == [pc EXCEPT ![r] = "done"]
        s == IF res.kind = "raised"
             THEN [value |-> sem_value, pc |-> p]
             ELSE release(sem_value, sem_waiters, p)
    IN  /\ sem_value' = s.value
        /\ pc' = s.pc
        /\ released' = [released EXCEPT ![r] =
                          IF res.kind = "raised" THEN @ ELSE @ + 1]
        /\ result' = [result EXCEPT ![r] = res]
        /\ UNCHANGED sem_waiters

\* finally: self._semaphore.release(), and the run ends with res
Finish(r, res) ==
    LET s == release(sem_value, sem_waiters, [pc EXCEPT ![r] = "done"])
    IN  /\ sem_value' = s.value
        /\ pc' = s.pc
        /\ released' = [released EXCEPT ![r] = @ + 1]
        /\ result' = [result EXCEPT ![r] = res]
        /\ UNCHANGED sem_waiters

\* a caller invokes process_dialogue: the checks, then the semaphore is
\* acquired at once or the run queues for it
Start(r) ==
    /\ pc[r] = "idle"
    /\ r \in env.clients
    /\ \E request \in env.requests :
         LET e == precondition_error(request, stt_ready, llm_configured,
                                     tts_ready)
         IN  /\ req' = [req EXCEPT ![r] = request]
             /\ IF e # ""
                THEN /\ pc' = [pc EXCEPT ![r] = "done"]
                     /\ result' = [result EXCEPT ![r] =
                                     OrchestratorError(e, NoDetails, NoRetry)]
                     /\ UNCHANGED <<sem_vars, queued, acquired, calls>>
                ELSE IF ~locked(sem_value, sem_waiters)
                THEN /\ sem_value' = sem_value - 1
                     /\ acquired' = [acquired EXCEPT ![r] = @ + 1]
                     /\ calls' = [calls EXCEPT ![r] = Append(@, "transcribe")]
                     /\ pc' = [pc EXCEPT ![r] = "stt"]
                     /\ UNCHANGED <<sem_waiters, queued, result>>
                ELSE /\ sem_waiters' = Append(sem_waiters, r)
                     /\ queued' = [queued EXCEPT ![r] = TRUE]
                     /\ pc' = [pc EXCEPT ![r] = "waiting"]
                     /\ UNCHANGED <<sem_value, acquired, calls, result>>
    /\ UNCHANGED <<svc_vars, waited, released, ret_vars>>

\* 100 ms pass for the runs queued on the semaphore; a timer that is due
\* fires first, a woken task resumes first
Tick ==
    /\ \E r \in Runs : pc[r] = "waiting"
    /\ \A r \in Runs : pc[r] # "woken"
    /\ \A r \in Runs : pc[r] = "waiting" => waited[r] < AcquireTimeout
    /\ waited' = [r \in Runs |->
                    IF pc[r] = "waiting" THEN waited[r] + 1 ELSE waited[r]]
    /\ UNCHANGED <<svc_vars, sem_vars, pc, req, queued, acquired, released,
                   calls, ret_vars, result>>

\* a woken run returns from acquire() and enters the try block
Resume(r) ==
    /\ pc[r] = "woken"
    /\ LET ws == remove(sem_waiters, r)
           p == [pc EXCEPT ![r] = "stt"]
           s == IF sem_value > 0
                THEN _wake_up_next(sem_value, ws, p)
                ELSE [value |-> sem_value, pc |-> p]
       IN  /\ sem_waiters' = ws
           /\ sem_value' = s.value
           /\ pc' = s.pc
    /\ acquired' = [acquired EXCEPT ![r] = @ + 1]
    /\ calls' = [calls EXCEPT ![r] = Append(@, "transcribe")]
    /\ UNCHANGED <<svc_vars, req, waited, queued, released, ret_vars, result>>

\* asyncio.timeout(0.1) expires while the run is queued
TimeoutWaiting(r) ==
    /\ pc[r] = "waiting"
    /\ waited[r] >= AcquireTimeout
    /\ sem_waiters' = remove(sem_waiters, r)
    /\ pc' = [pc EXCEPT ![r] = "done"]
    /\ result' = [result EXCEPT ![r] = too_many_requests]
    /\ UNCHANGED <<svc_vars, sem_value, req, waited, queued, acquired,
                   released, calls, ret_vars>>

\* asyncio.timeout(0.1) expires after the run was handed a permit and before
\* its task resumed: acquire() gives the permit back and re-raises
TimeoutWoken(r) ==
    /\ pc[r] = "woken"
    /\ waited[r] >= AcquireTimeout
    /\ LET ws == remove(sem_waiters, r)
           s == release(sem_value, ws, [pc EXCEPT ![r] = "done"])
       IN  /\ sem_waiters' = ws
           /\ sem_value' = s.value
           /\ pc' = s.pc
    /\ result' = [result EXCEPT ![r] = too_many_requests]
    /\ UNCHANGED <<svc_vars, req, waited, queued, acquired, released, calls,
                   ret_vars>>

\* transcribe returns or raises; the run validates and calls generate_response
SttReturn(r) ==
    /\ pc[r] = "stt"
    /\ \E b \in env.stt :
         LET o == after_transcribe(b, llm_configured)
         IN  /\ stt_ret' = [stt_ret EXCEPT ![r] = b]
             /\ llm_ret' = [llm_ret EXCEPT ![r] = o.next]
             /\ calls' = [calls EXCEPT ![r] = @ \o o.called]
             /\ IF o.res.kind # "none"
                THEN Finish(r, o.res)
                ELSE /\ pc' = [pc EXCEPT ![r] = "llm"]
                     /\ UNCHANGED <<sem_vars, released, result>>
    /\ UNCHANGED <<svc_vars, req, waited, queued, acquired, tts_ret>>

\* the API call of generate_response returns or raises; the run calls synthesize
LlmReturn(r) ==
    /\ pc[r] = "llm"
    /\ \E b \in env.llm :
         LET o == after_generate(b, tts_ready)
         IN  /\ llm_ret' = [llm_ret EXCEPT ![r] = b]
             /\ tts_ret' = [tts_ret EXCEPT ![r] = o.next]
             /\ calls' = [calls EXCEPT ![r] = @ \o o.called]
             /\ IF o.res.kind # "none"
                THEN Finish(r, o.res)
                ELSE /\ pc' = [pc EXCEPT ![r] = "tts"]
                     /\ UNCHANGED <<sem_vars, released, result>>
    /\ UNCHANGED <<svc_vars, req, waited, queued, acquired, stt_ret>>

\* the inference of synthesize returns or raises; the run ends
TtsReturn(r) ==
    /\ pc[r] = "tts"
    /\ \E b \in env.tts :
         /\ tts_ret' = [tts_ret EXCEPT ![r] = b]
         /\ Finish(r, after_synthesize(b))
    /\ UNCHANGED <<svc_vars, req, waited, queued, acquired, calls, stt_ret,
                   llm_ret>>

Next ==
    \/ \E r \in Runs : Start(r)
    \/ Tick
    \/ \E r \in Runs : Resume(r)
    \/ \E r \in Runs : TimeoutWaiting(r)
    \/ \E r \in Runs : TimeoutWoken(r)
    \/ \E r \in Runs : SttReturn(r)
    \/ \E r \in Runs : LlmReturn(r)
    \/ \E r \in Runs : TtsReturn(r)

Spec == Init /\ [][Next]_vars

\* three callers at once against a pool of two, every stage call succeeds
InitNominal ==
    /\ env = NominalEnv
    /\ stt_ready = TRUE
    /\ llm_configured = TRUE
    /\ tts_ready = TRUE
    /\ max_concurrent = 2
    /\ InitRuns
    /\ StatusIdle
    /\ CacheIdle
    /\ WsIdle

SpecNominal == InitNominal /\ [][Next]_vars

\* a pool of one, services in any state of readiness, every kind of request
\* and of collaborator behaviour
InitPipeline ==
    /\ env = PipelineEnv
    /\ stt_ready \in BOOLEAN
    /\ llm_configured \in BOOLEAN
    /\ tts_ready \in BOOLEAN
    /\ max_concurrent = 1
    /\ InitRuns
    /\ StatusIdle
    /\ CacheIdle
    /\ WsIdle

SpecPipeline == InitPipeline /\ [][Next]_vars

TypeOK ==
    /\ sem_value \in 0..max_concurrent
    /\ \A r \in Runs : pc[r] \in {"idle", "waiting", "woken", "stt", "llm",
                                  "tts", "done"}

\* ------------------------------------------------------------ health status
HealthStatus == {"healthy", "degraded", "unhealthy"}

\* LLMService.get_status().status
llm_get_status(configured, client, last_error) ==
    IF ~configured THEN "unhealthy"
    ELSE IF ~client THEN "unhealthy"
    ELSE IF last_error THEN "degraded"
    ELSE "healthy"

\* TTSService.get_status().status
tts_get_status(model_loaded, last_error) ==
    IF model_loaded THEN "healthy"
    ELSE IF last_error THEN "unhealthy"
    ELSE "degraded"

\* the orchestrator's reading of a service's status value
health(value) ==
    IF value = "healthy" THEN "healthy"
    ELSE IF value = "degraded" THEN "degraded"
    ELSE "unhealthy"

\* a degraded service decides before an unhealthy one
overall_degraded_first(services) ==
    LET all_statuses == {services[k] : k \in DOMAIN services}
    IN  IF \A x \in all_statuses : x = "healthy" THEN "healthy"
        ELSE IF \E x \in all_statuses : x = "degraded" THEN "degraded"
        ELSE "unhealthy"

overall(services) ==
    LET all_statuses == {services[k] : k \in DOMAIN services}
    IN  IF \A x \in all_statuses : x = "healthy" THEN "healthy"
        ELSE IF \E x \in all_statuses : x = "unhealthy" THEN "unhealthy"
        ELSE "degraded"

get_status ==
    LET services ==
            [stt |-> IF stt_ready THEN "healthy" ELSE "unhealthy",
             llm |-> health(llm_get_status(llm_configured, llm_client,
                                           llm_last_error)),
             tts |-> health(tts_get_status(tts_ready, tts_last_error))]
    IN  [status |-> overall(services), services |-> services]

\* STTService.load_model succeeds (a failed or repeated load changes nothing)
SttLoadModel ==
    /\ ~stt_ready
    /\ stt_ready' = TRUE
    /\ UNCHANGED <<env, llm_configured, tts_ready, max_concurrent,
                   status_vars, cache_vars, ws_vars, run_vars>>

\* TTSService.load_model succeeds or fails
TtsLoadModel(ok) ==
    /\ tts_ready' = ok
    /\ tts_last_error' = ~ok
    /\ UNCHANGED <<env, stt_ready, llm_configured, max_concurrent, llm_client,
                   llm_last_error, status, generate, history, dialogue_vars,
                   cache_vars, ws_vars, run_vars>>

\* LLMService._call_openai gets an answer or an error from the API
LlmCall(ok) ==
    /\ llm_configured
    /\ llm_client
    /\ llm_last_error' = ~ok
    /\ UNCHANGED <<env, stt_ready, llm_configured, tts_ready, max_concurrent,
                   llm_client, tts_last_error, status, generate, history,
                   dialogue_vars, cache_vars, ws_vars, run_vars>>

GetStatus ==
    /\ status' = get_status
    /\ UNCHANGED <<env, stt_ready, llm_configured, tts_ready, max_concurrent,
                   llm_client, llm_last_error, tts_last_error, generate,
                   history, dialogue_vars, cache_vars, ws_vars, run_vars>>

\* the services as constructed: no model loaded, the generator's client
\* created when a key is configured unless its construction failed
InitStatus ==
    /\ env = LoadEnv
    /\ max_concurrent = 1
    /\ InitRuns
    /\ stt_ready = FALSE
    /\ tts_ready = FALSE
    /\ tts_last_error = FALSE
    /\ llm_configured \in BOOLEAN
    /\ llm_client \in (IF llm_configured THEN BOOLEAN ELSE {FALSE})
    /\ llm_last_error = (llm_configured /\ ~llm_client)
    /\ status = NoStatus
    /\ generate = NoGenerate
    /\ history = [i \in ConversationIds |-> NoHistory]
    /\ PoolsIdle(MAX_CONCURRENT_REQUESTS, TTS_MAX_CONCURRENT)
    /\ CacheIdle
    /\ WsIdle

NextStatus ==
    \/ SttLoadModel
    \/ \E ok \in BOOLEAN : TtsLoadModel(ok)
    \/ \E ok \in BOOLEAN : LlmCall(ok)
    \/ GetStatus

SpecStatus == InitStatus /\ [][NextStatus]_vars

\* ------------------------------------------------------- conversation cache
ScenarioLen == 4

\* callers of a small cache: three ids, room for one or two conversations of
\* two turns each, records expiring when older than one tick
CacheEnv ==
    [ids |-> {"A", "B", "C"}, max_messages |-> {2},
     max_conversations |-> {1, 2}, ttl |-> {1},
     appends |-> MaxAppends, clock |-> MaxNow]

\* four ids against a cache with room for three, within one ttl
EvictionEnv ==
    [ids |-> {"A", "B", "C", "D"}, max_messages |-> {1},
     max_conversations |-> {3}, ttl |-> {1},
     appends |-> 2, clock |-> 1]

\* the n-th turn of a conversation as its callers write it
turn(n) ==
    [role |-> IF n % 2 = 1 THEN "user" ELSE "assistant", content |-> n]

Mixed == [only |-> FALSE, ids |-> <<>>]

\* a new record starts with the system prompt as its first turn
Conversation_seeded(id, t) ==
    [id |-> id, messages |-> <<[role |-> "system", content |-> 0]>>,
     updated_at |-> t]

Conversation(id, t) ==
    [id |-> id, messages |-> <<>>, updated_at |-> t]

ids(c) == {c[i].id : i \in 1..Len(c)}

find(c, id) == CHOOSE i \in 1..Len(c) : c[i].id = id

expired(v, t, ttl_) == t - v.updated_at > ttl_

\* nothing ever expires
_cleanup_expired_never(c, t, ttl_) == c

_cleanup_expired(c, t, ttl_) == SelectSeq(c, LAMBDA v : ~expired(v, t, ttl_))

\* sorted(items, key=updated_at): stable, ties stay in insertion order
first_oldest(c) ==
    CHOOSE i \in 1..Len(c) :
        \A j \in 1..Len(c) :
            \/ c[i].updated_at < c[j].updated_at
            \/ c[i].updated_at = c[j].updated_at /\ i <= j

without(c, i) == SubSeq(c, 1, i - 1) \o SubSeq(c, i + 1, Len(c))

RECURSIVE sorted(_)
sorted(c) ==
    IF c = <<>> THEN <<>>
    ELSE LET i == first_oldest(c) IN <<c[i]>> \o sorted(without(c, i))

head(s, n) == SubSeq(s, 1, IF n < Len(s) THEN n ELSE Len(s))

\* the most recently updated conversations go first
_evict_newest_if_needed(c, maxc) ==
    IF Len(c) >= maxc
    THEN LET to_evict == Len(c) - maxc + 1
             s == sorted(c)
             gone == {s[k].id : k \in (Len(s) - to_evict + 1)..Len(s)}
         IN  SelectSeq(c, LAMBDA v : v.id \notin gone)
    ELSE c

\* room is made only once the cache is over its capacity
_evict_oldest_if_over(c, maxc) ==
    IF Len(c) > maxc
    THEN LET to_evict == Len(c) - maxc + 1
             gone == ids(head(sorted(c), to_evict))
         IN  SelectSeq(c, LAMBDA v : v.id \notin gone)
    ELSE c

_evict_oldest_if_needed(c, maxc) ==
    IF Len(c) >= maxc
    THEN LET to_evict == Len(c) - maxc + 1
             gone == ids(head(sorted(c), to_evict))
         IN  SelectSeq(c, LAMBDA v : v.id \notin gone)
    ELSE c

\* a read refreshes updated_at
get_or_create_touching(c, id, t, ttl_, maxc) ==
    LET c1 == _cleanup_expired(c, t, ttl_)
    IN  IF id \notin ids(c1)
        THEN Append(_evict_oldest_if_needed(c1, maxc), Conversation(id, t))
        ELSE [c1 EXCEPT ![find(c1, id)].updated_at = t]

get_or_create(c, id, t, ttl_, maxc) ==
    LET c1 == _cleanup_expired(c, t, ttl_)
    IN  IF id \notin ids(c1)
        THEN Append(_evict_oldest_if_needed(c1, maxc), Conversation(id, t))
        ELSE c1

\* trimming keeps the oldest turns
add_message_keep_oldest(c, id, role, content, t, ttl_, maxc, maxm) ==
    LET c1 == get_or_create(c, id, t, ttl_, maxc)
        i == find(c1, id)
        appended == Append(c1[i].messages,
                           [role |-> role, content |-> content])
        kept == IF Len(appended) > maxm
                THEN SubSeq(appended, 1, maxm)
                ELSE appended
    IN  [c1 EXCEPT ![i].messages = kept, ![i].updated_at = t]

\* the new turn is put in front of the earlier ones
add_message_in_front(c, id, role, content, t, ttl_, maxc, maxm) ==
    LET c1 == get_or_create(c, id, t, ttl_, maxc)
        i == find(c1, id)
        appended == <<[role |-> role, content |-> content]>>
                        \o c1[i].messages
        kept == IF Len(appended) > maxm
                THEN SubSeq(appended, 1, maxm)
                ELSE appended
    IN  [c1 EXCEPT ![i].messages = kept, ![i].updated_at = t]

add_message(c, id, role, content, t, ttl_, maxc, maxm) ==
    LET c1 == get_or_create(c, id, t, ttl_, maxc)
        i == find(c1, id)
        appended == Append(c1[i].messages,
                           [role |-> role, content |-> content])
        trimmed == Len(appended) - maxm
        kept == IF Len(appended) > maxm
                THEN SubSeq(appended, trimmed + 1, Len(appended))
                ELSE appended
    IN  [c1 EXCEPT ![i].messages = kept, ![i].updated_at = t]

\* expired records are swept before the lookup
clear_sweeping(c, id, t, ttl_) ==
    LET c1 == _cleanup_expired(c, t, ttl_)
    IN  IF id \in ids(c1)
        THEN [cache |-> SelectSeq(c1, LAMBDA v : v.id # id), ret |-> TRUE]
        ELSE [cache |-> c1, ret |-> FALSE]

clear(c, id, t, ttl_) ==
    IF id \in ids(c)
    THEN [cache |-> SelectSeq(c, LAMBDA v : v.id # id), ret |-> TRUE]
    ELSE [cache |-> c, ret |-> FALSE]

count(c, t, ttl_) ==
    LET c1 == _cleanup_expired(c, t, ttl_)
    IN  [cache |-> c1, ret |-> Len(c1)]

\* the records a call removes as expired
swept(c, t, ttl_) == ids(c) \ ids(_cleanup_expired(c, t, ttl_))

\* the turns appended to the records that are still cached
kept_log(c, fresh) ==
    [i \in ConversationIds |->
        IF i \in ids(c) /\ i \notin fresh THEN log[i] ELSE <<>>]

GetOrCreate(id) ==
    LET c == get_or_create(cache, id, now, ttl, max_conversations)
        created == id \notin ids(_cleanup_expired(cache, now, ttl))
    IN  /\ cache' = c
        /\ log' = kept_log(c, IF created THEN {id} ELSE {})
        /\ inserted' = IF created /\ inserted.only
                          /\ Len(inserted.ids) < ScenarioLen
                       THEN [inserted EXCEPT !.ids = Append(@, id)]
                       ELSE Mixed
        /\ last' = [op |-> "get_or_create", id |-> id,
                    ret |-> c[find(c, id)], swept |-> swept(cache, now, ttl)]
        /\ UNCHANGED <<max_messages, max_conversations, ttl, now, base_vars,
                       status_vars, ws_vars, run_vars>>

AddMessage(id) ==
    LET created == id \notin ids(_cleanup_expired(cache, now, ttl))
        n == IF created THEN 1 ELSE Len(log[id]) + 1
        c == add_message(cache, id, turn(n).role, turn(n).content, now, ttl,
                         max_conversations, max_messages)
        l == kept_log(c, IF created THEN {id} ELSE {})
    IN  /\ n <= env.appends
        /\ cache' = c
        /\ log' = [l EXCEPT ![id] = Append(@, turn(n))]
        /\ inserted' = IF created /\ inserted.only
                          /\ Len(inserted.ids) < ScenarioLen
                       THEN [inserted EXCEPT !.ids = Append(@, id)]
                       ELSE Mixed
        /\ last' = [op |-> "add_message", id |-> id,
                    ret |-> c[find(c, id)], swept |-> swept(cache, now, ttl)]
        /\ UNCHANGED <<max_messages, max_conversations, ttl, now, base_vars,
                       status_vars, ws_vars, run_vars>>

Clear(id) ==
    LET o == clear(cache, id, now, ttl)
    IN  /\ cache' = o.cache
        /\ log' = kept_log(o.cache, {})
        /\ inserted' = Mixed
        /\ last' = [op |-> "clear", id |-> id, ret |-> o.ret,
                    swept |-> ids(cache) \ (ids(o.cache) \cup {id})]
        /\ UNCHANGED <<max_messages, max_conversations, ttl, now, base_vars,
                       status_vars, ws_vars, run_vars>>

Count ==
    LET o == count(cache, now, ttl)
    IN  /\ cache' = o.cache
        /\ log' = kept_log(o.cache, {})
        /\ inserted' = Mixed
        /\ last' = [op |-> "count", id |-> "", ret |-> o.ret,
                    swept |-> swept(cache, now, ttl)]
        /\ UNCHANGED <<max_messages, max_conversations, ttl, now, base_vars,
                       status_vars, ws_vars, run_vars>>

\* the clock of datetime.now() moves on
ClockTick ==
    /\ now < env.clock
    /\ now' = now + 1
    /\ UNCHANGED <<cache, max_messages, max_conversations, ttl, log, inserted,
                   last, base_vars, status_vars, ws_vars, run_vars>>

\* an empty cache constructed with the limits of e
InitCacheOf(e) ==
    /\ env = e
    /\ max_concurrent = 1
    /\ InitRuns
    /\ stt_ready = FALSE
    /\ llm_configured = TRUE
    /\ tts_ready = FALSE
    /\ StatusIdle
    /\ WsIdle
    /\ cache = <<>>
    /\ max_messages \in e.max_messages
    /\ max_conversations \in e.max_conversations
    /\ ttl \in e.ttl
    /\ now = 0
    /\ log = [i \in ConversationIds |-> <<>>]
    /\ inserted = [only |-> TRUE, ids |-> <<>>]
    /\ last = NoCall

InitCache == InitCacheOf(CacheEnv)

InitEviction == InitCacheOf(EvictionEnv)

NextCache ==
    \/ \E id \in env.ids : GetOrCreate(id)
    \/ \E id \in env.ids : AddMessage(id)
    \/ \E id \in env.ids : Clear(id)
    \/ Count
    \/ ClockTick

SpecCache == InitCache /\ [][NextCache]_vars

SpecEviction == InitEviction /\ [][NextCache]_vars

\* ---------------------------------------------------- generate_response
\* two conversations, room for two calls without trimming and a third that
\* trims, expiry and eviction
LlmEnv == [ids |-> {"A", "B"}, max_messages |-> {4},
           max_conversations |-> {1, 2}, ttl |-> {1}, appends |-> 6,
           clock |-> MaxNow]

SYSTEM_PROMPT == [role |-> "system", content |-> 0]

build_messages_latest_only(conversation_messages) ==
    <<SYSTEM_PROMPT, conversation_messages[Len(conversation_messages)]>>

\* the prompt: the system prompt followed by the turns of the conversation
build_messages(conversation_messages) ==
    <<SYSTEM_PROMPT>> \o conversation_messages

\* the calls on the records that are still cached
kept_history(c, fresh) ==
    [i \in ConversationIds |->
        IF i \in ids(c) /\ i \notin fresh THEN history[i] ELSE NoHistory]

\* the message of a request: valid, empty or blank, or too long
MessageKinds == {"valid", "empty", "too_long"}

\* generate_response up to its await of the API: the checks, the user turn
\* and the prompt; one call is made at a time
GenerateResponse(id, kind) ==
    /\ generate.pc = "idle"
    /\ IF ~llm_configured \/ kind # "valid"
       THEN /\ generate' = [pc |-> "idle",
                            out |-> IF ~llm_configured
                                    THEN "LLM_NOT_CONFIGURED"
                                    ELSE IF kind = "empty"
                                    THEN "EMPTY_MESSAGE"
                                    ELSE "MESSAGE_TOO_LONG"]
            /\ UNCHANGED <<cache, log, inserted, last, history>>
       ELSE LET created == id \notin ids(_cleanup_expired(cache, now, ttl))
                n == IF created THEN 1 ELSE Len(log[id]) + 1
                c == add_message(cache, id, "user", n, now, ttl,
                                 max_conversations, max_messages)
                fresh == IF created THEN {id} ELSE {}
            IN  /\ n < env.appends
                /\ cache' = c
                /\ log' = [kept_log(c, fresh) EXCEPT ![id] =
                              Append(@, [role |-> "user", content |-> n])]
                /\ history' = kept_history(c, fresh)
                /\ inserted' = Mixed
                /\ last' = [op |-> "add_message", id |-> id,
                            ret |-> c[find(c, id)],
                            swept |-> swept(cache, now, ttl)]
                /\ generate' = [pc |-> "api", id |-> id,
                                message |-> [role |-> "user", content |-> n],
                                prompt |->
                                    build_messages(c[find(c, id)].messages),
                                out |-> "none"]
    /\ UNCHANGED <<max_messages, max_conversations, ttl, now, llm_client,
                   llm_last_error, tts_last_error, status, dialogue_vars,
                   base_vars, ws_vars, run_vars>>

exception_rolls_back(c, id) ==
    [i \in 1..Len(c) |->
        IF c[i].id = id
        THEN [c[i] EXCEPT !.messages = SubSeq(@, 1, Len(@) - 1)]
        ELSE c[i]]

\* the cache after the RuntimeError of _call_openai has left
\* generate_response: no handler is on its way, nothing is undone
exception_leaves(c, id) == c

\* _call_openai comes back: its error leaves generate_response, its answer
\* is appended as the assistant turn
CallOpenaiReturn(ok) ==
    /\ generate.pc = "api"
    /\ llm_last_error' = (llm_last_error \/ ~ok)
    /\ IF ~ok
       THEN /\ generate' = [pc |-> "idle", out |-> "RuntimeError"]
            /\ history' = [history EXCEPT ![generate.id].ok = FALSE]
            /\ cache' = exception_leaves(cache, generate.id)
            /\ UNCHANGED <<log, inserted, last>>
       ELSE LET id == generate.id
                created == id \notin ids(_cleanup_expired(cache, now, ttl))
                n == IF created THEN 1 ELSE Len(log[id]) + 1
                c == add_message(cache, id, "assistant", n, now, ttl,
                                 max_conversations, max_messages)
                fresh == IF created THEN {id} ELSE {}
                h == kept_history(c, fresh)
            IN  /\ cache' = c
                /\ log' = [kept_log(c, fresh) EXCEPT ![id] =
                              Append(@, [role |-> "assistant",
                                         content |-> n])]
                /\ history' =
                       [h EXCEPT ![id] =
                           IF created THEN [ok |-> FALSE, calls |-> <<>>]
                           ELSE [@ EXCEPT !.calls =
                                    Append(@, [message |-> generate.message,
                                               response |->
                                                   [role |-> "assistant",
                                                    content |-> n],
                                               prompt |-> generate.prompt])]]
                /\ inserted' = Mixed
                /\ last' = [op |-> "add_message", id |-> id,
                            ret |-> c[find(c, id)],
                            swept |-> swept(cache, now, ttl)]
                /\ generate' = [pc |-> "idle", out |-> "ok"]
    /\ UNCHANGED <<max_messages, max_conversations, ttl, now, llm_client,
                   tts_last_error, status, dialogue_vars, base_vars, ws_vars,
                   run_vars>>

InitLlm ==
    /\ env = LlmEnv
    /\ max_concurrent = 1
    /\ InitRuns
    /\ stt_ready = FALSE
    /\ llm_configured \in BOOLEAN
    /\ tts_ready = FALSE
    /\ StatusIdle
    /\ WsIdle
    /\ cache = <<>>
    /\ max_messages \in LlmEnv.max_messages
    /\ max_conversations \in LlmEnv.max_conversations
    /\ ttl \in LlmEnv.ttl
    /\ now = 0
    /\ log = [i \in ConversationIds |-> <<>>]
    /\ inserted = [only |-> TRUE, ids |-> <<>>]
    /\ last = NoCall

NextLlm ==
    \/ \E id \in env.ids, kind \in MessageKinds : GenerateResponse(id, kind)
    \/ \E ok \in BOOLEAN : CallOpenaiReturn(ok)
    \/ ClockTick

SpecLlm == InitLlm /\ [][NextLlm]_vars

\* ------------------------------------------------------- connection manager
task_done_always(p, s) == TRUE

\* asyncio.Task.done of the heartbeat task of a session
task_done(p, s) == p[s].pc \in {"none", "done", "failed"}

\* the limits of a run of the manager: how many sessions connect, how many
\* tasks call it, how many writes one transport is handed
WsEnv == [sessions |-> MaxSessions, callers |-> NumCallers,
          sends |-> MaxSends]

\* two sessions, one calling task beside the heartbeats
TwoSessionsEnv == [sessions |-> 2, callers |-> 1, sends |-> 2]

uuid4_constant(n) == 1

uuid4_previous(n) == IF n = 0 THEN 1 ELSE n

\* str(uuid.uuid4()): the n+1-th id handed out is none of the n before it
uuid4(n) == n + 1

has_heartbeat_never(tasks, s) == FALSE

\* session_id in self._ping_tasks
has_heartbeat(tasks, s) == s \in tasks

send_json_in_front(w, message) ==
    [first |-> message, calls |-> <<Len(w.calls) + 1>> \o w.calls]

\* websocket.send_json is called with the message of a send_message call:
\* the transport is handed the message; of what a transport was handed the
\* model keeps the first message and the numbers of the calls, which are
\* numbered per session as they are made
send_json(w, message) ==
    [first |-> IF w.calls = <<>> THEN message ELSE w.first,
     calls |-> Append(w.calls, Len(w.calls) + 1)]

\* the heartbeat task of a session has ended
ended(p, s, how) ==
    [p EXCEPT ![s] = [pc |-> how, must_cancel |-> FALSE,
                      loops |-> p[s].loops - 1]]

\* the ids a task can send to and disconnect: those connect has handed out,
\* and an id that none of them is
known(s) == s = Unknown \/ s <= next_id

\* what a call hands back, whether the session was known to either registry
\* when the call was made, and whether it is torn down when the call returns
Return(op, s, found, wrote, val, conns, tasks, p) ==
    [op |-> op, sid |-> s, found |-> found, wrote |-> wrote, val |-> val,
     torn |-> s \notin conns /\ s \notin tasks /\ task_done(p, s)]

del_connection_unguarded(conns, s) ==
    [connections |-> conns \ {s}, raised |-> s \notin conns]

del_connection_skipped(conns, s) == [connections |-> conns, raised |-> FALSE]

\* the last statement of disconnect: the connection entry is deleted if there
\* is one
del_connection(conns, s) == [connections |-> conns \ {s}, raised |-> FALSE]

\* the value of a call that ran disconnect to its end
after_disconnect(op, raised) ==
    IF raised THEN "KeyError"
    ELSE IF op \in {"send_message", "broadcast", "frame"} THEN "False"
    ELSE "None"

\* list(self._connections.keys()): the registered ids in the order of their
\* registration, which is the order of their numbers
keys(conns) ==
    [i \in 1..Cardinality(conns) |->
        CHOOSE x \in conns : Cardinality({y \in conns : y < x}) = i - 1]

\* the place in a list of sessions of the first one that is registered, or
\* the place after the last
next_registered(todo, conns) ==
    IF \E i \in 1..Len(todo) : todo[i] \in conns
    THEN CHOOSE i \in 1..Len(todo) :
             /\ todo[i] \in conns
             /\ \A j \in 1..(i - 1) : todo[j] \notin conns
    ELSE Len(todo) + 1

\* if await self.send_message(...): sent_count += 1
counted(n, wrote) == IF wrote = "ok" THEN n + 1 ELSE n

\* what broadcast hands back: its count, or the fault that left it; ghost
\* fields tell which sessions were registered when it started and how the
\* send to each of them went
BroadcastReturn(c, val) ==
    [op |-> "broadcast", sid |-> Unknown, found |-> TRUE, wrote |-> "none",
     val |-> val, torn |-> FALSE, snapshot |-> c.snapshot,
     results |-> c.results, count |-> c.count]

\* the loop of broadcast in task t up to its next suspension: the sessions
\* that are no longer registered get False from send_message at once; the
\* write for the first registered one is begun, or broadcast returns
Continue(t, c, conns) ==
    LET k == next_registered(c.todo, conns)
        results == c.results \o
                   [i \in 1..(k - 1) |-> [sid |-> c.todo[i], wrote |-> "none"]]
    IN  IF k > Len(c.todo)
        THEN /\ caller' = [caller EXCEPT ![t] = Idle]
             /\ returned' = BroadcastReturn([c EXCEPT !.results = results],
                                            "None")
             /\ UNCHANGED sent
        ELSE /\ Len(sent[c.todo[k]].calls) < env.sends
             /\ sent' = [sent EXCEPT ![c.todo[k]] =
                            send_json(@, [type |-> "message"])]
             /\ caller' = [caller EXCEPT ![t] =
                              [c EXCEPT !.pc = "send_json",
                                        !.sid = c.todo[k],
                                        !.wrote = "none",
                                        !.todo = SubSeq(c.todo, k + 1,
                                                        Len(c.todo)),
                                        !.results = results]]
             /\ UNCHANGED returned

\* the text frames a client may send: text that is not JSON, an object of an
\* unknown type, an object of a known type with invalid fields, JSON that
\* is not an object, and a valid pong
Frames ==
    {"not_json", "unknown_type", "invalid_fields", "not_an_object", "pong"}

\* json.loads
json_loads(frame) ==
    IF frame = "not_json" THEN "JSONDecodeError" ELSE "data"

\* parse_client_message: data.get("type") on data that is not an object
\* raises AttributeError
parse_client_message(frame) ==
    CASE frame = "not_an_object" -> "AttributeError"
      [] frame = "unknown_type" -> "ValueError"
      [] frame = "invalid_fields" -> "ValidationError"
      [] OTHER -> "message"

\* the except clauses of the endpoint: which error, if any, a frame makes
\* it send
frame_error(frame) ==
    IF json_loads(frame) = "JSONDecodeError"
    THEN [send |-> TRUE, recoverable |-> TRUE]
    ELSE IF parse_client_message(frame) \in {"ValidationError", "ValueError"}
    THEN [send |-> TRUE, recoverable |-> TRUE]
    ELSE IF parse_client_message(frame) = "message"
    THEN [send |-> FALSE, recoverable |-> TRUE]
    ELSE [send |-> TRUE, recoverable |-> FALSE]

\* how the endpoint dealt with a frame: the error it sent, whether the write
\* succeeded, and whether it went back to receive_text or left its loop,
\* which ends with disconnect
FrameReturn(c, wrote, val, conns, tasks, p) ==
    [op |-> "frame", sid |-> c.sid, found |-> c.found, wrote |-> wrote,
     val |-> val,
     torn |-> c.sid \notin conns /\ c.sid \notin tasks /\ task_done(p, c.sid),
     frame |-> c.frame, recoverable |-> c.recoverable,
     receiving |-> c.recoverable /\ val # "KeyError"]

\* the call c of task t has got its value: it returns, or, when it is the
\* send of a broadcast, the broadcast goes on or is left by the fault
Complete(t, c, wrote, val, conns, tasks, p) ==
    IF c.op = "frame"
    THEN /\ caller' = [caller EXCEPT ![t] = Idle]
         /\ returned' = FrameReturn(c, wrote, val, conns, tasks, p)
         /\ UNCHANGED sent
    ELSE IF c.op # "broadcast"
    THEN /\ caller' = [caller EXCEPT ![t] = Idle]
         /\ returned' = Return(c.op, c.sid, c.found, wrote, val, conns,
                               tasks, p)
         /\ UNCHANGED sent
    ELSE LET d == [c EXCEPT !.results =
                                Append(@, [sid |-> c.sid, wrote |-> wrote]),
                            !.count = counted(@, wrote)]
         IN  IF val = "KeyError"
             THEN /\ caller' = [caller EXCEPT ![t] = Idle]
                  /\ returned' = BroadcastReturn(d, "KeyError")
                  /\ UNCHANGED sent
             ELSE Continue(t, d, conns)

cancel_ignored(p, s) == p

\* asyncio.Task.cancel on the heartbeat task of a session that is not done
cancel(p, s) == [p EXCEPT ![s].must_cancel = TRUE]

\* disconnect(c.sid) up to its await of the heartbeat task, entered by task t
\* in the call c; it runs to its end when there is no unfinished heartbeat
EnterDisconnect(t, c, wrote) ==
    IF has_heartbeat(ping_tasks, c.sid) /\ ~task_done(ping, c.sid)
    THEN /\ ping' = cancel(ping, c.sid)
         /\ caller' = [caller EXCEPT ![t] =
                          [c EXCEPT !.pc = "await_ping", !.wrote = wrote]]
         /\ UNCHANGED <<connections, ping_tasks, returned, sent>>
    ELSE /\ ping_tasks' = ping_tasks \ {c.sid}
         /\ connections' = del_connection(connections, c.sid).connections
         /\ Complete(t, c, wrote,
                   after_disconnect(
                       c.op, del_connection(connections, c.sid).raised),
                   connections', ping_tasks', ping)
         /\ UNCHANGED ping

\* connect: the session is registered under a fresh id and the
\* acknowledgement is being written
Connect(t) ==
    /\ caller[t] = Idle
    /\ next_id < env.sessions
    /\ next_id' = next_id + 1
    /\ LET s == uuid4(next_id)
       IN  /\ connections' = connections \cup {s}
           /\ sent' = [sent EXCEPT ![s] =
                          send_json(@, [type |-> "connection_ack",
                                        session_id |-> s])]
           /\ caller' = [caller EXCEPT ![t] =
                            [pc |-> "send_json", op |-> "connect", sid |-> s,
                             found |-> TRUE, wrote |-> "none"]]
    /\ UNCHANGED <<ping_tasks, ping, returned>>
    /\ UNCHANGED <<base_vars, status_vars, cache_vars, run_vars>>

\* start_ping_loop, called with an id connect has handed out: a task is
\* created unless the session has one
StartPingLoop(t, s) ==
    /\ caller[t] = Idle
    /\ s \in 1..next_id
    /\ IF has_heartbeat(ping_tasks, s)
       THEN UNCHANGED <<ping_tasks, ping>>
       ELSE /\ ping_tasks' = ping_tasks \cup {s}
            /\ ping' = [ping EXCEPT ![s] =
                           [pc |-> "ready", must_cancel |-> FALSE,
                            loops |-> @.loops + 1]]
    /\ returned' = Return("start_ping_loop", s,
                          s \in connections \/ s \in ping_tasks, "none",
                          "None", connections, ping_tasks', ping')
    /\ UNCHANGED <<connections, caller, next_id, sent>>
    /\ UNCHANGED <<base_vars, status_vars, cache_vars, run_vars>>

\* send_message up to its write
Send(t, s) ==
    /\ caller[t] = Idle
    /\ known(s)
    /\ IF s \notin connections
       THEN /\ returned' = Return("send_message", s, s \in ping_tasks,
                                  "none", "False", connections, ping_tasks,
                                  ping)
            /\ UNCHANGED <<caller, sent>>
       ELSE /\ Len(sent[s].calls) < env.sends
            /\ sent' = [sent EXCEPT ![s] = send_json(@, [type |-> "message"])]
            /\ caller' = [caller EXCEPT ![t] =
                             [pc |-> "send_json", op |-> "send_message",
                              sid |-> s, found |-> TRUE, wrote |-> "none"]]
            /\ UNCHANGED returned
    /\ UNCHANGED <<connections, ping_tasks, ping, next_id>>
    /\ UNCHANGED <<base_vars, status_vars, cache_vars, run_vars>>

\* broadcast up to the write for the first session of its snapshot
Broadcast(t) ==
    /\ caller[t] = Idle
    /\ Continue(t, [pc |-> "idle", op |-> "broadcast", sid |-> Unknown,
                    found |-> TRUE, wrote |-> "none",
                    todo |-> keys(connections), snapshot |-> connections,
                    results |-> <<>>, count |-> 0],
                connections)
    /\ UNCHANGED <<connections, ping_tasks, ping, next_id>>
    /\ UNCHANGED <<base_vars, status_vars, cache_vars, run_vars>>

\* the endpoint of a session that was connected gets a frame from
\* receive_text: a message is handled; otherwise send_error is called, up to
\* its write
Receive(t, s, frame) ==
    /\ caller[t] = Idle
    /\ sent[s] # NoWrites
    /\ LET c == [pc |-> "send_json", op |-> "frame", sid |-> s,
                 found |-> s \in connections, wrote |-> "none",
                 frame |-> frame,
                 recoverable |-> frame_error(frame).recoverable]
       IN  IF ~frame_error(frame).send \/ s \notin connections
           THEN /\ IF frame_error(frame).send /\ ~c.recoverable
                   THEN EnterDisconnect(t, c, "none")
                   ELSE /\ Complete(t, c, "none",
                                    IF frame_error(frame).send
                                    THEN "False" ELSE "None",
                                    connections, ping_tasks, ping)
                        /\ UNCHANGED <<connections, ping_tasks, ping>>
           ELSE /\ Len(sent[s].calls) < env.sends
                /\ sent' = [sent EXCEPT ![s] =
                               send_json(@, [type |-> "error",
                                             recoverable |-> c.recoverable])]
                /\ caller' = [caller EXCEPT ![t] = c]
                /\ UNCHANGED <<connections, ping_tasks, ping, returned>>
    /\ UNCHANGED next_id
    /\ UNCHANGED <<base_vars, status_vars, cache_vars, run_vars>>

\* websocket.send_json comes back to a calling task, with or without a fault;
\* after an error that is not recoverable the endpoint leaves its loop and
\* disconnects
WriteDone(t, ok) ==
    /\ caller[t].pc = "send_json"
    /\ IF ok /\ caller[t].op = "frame" /\ ~caller[t].recoverable
       THEN EnterDisconnect(t, caller[t], "ok")
       ELSE IF ok
       THEN /\ Complete(t, caller[t], "ok",
                      IF caller[t].op \in {"send_message", "broadcast",
                                           "frame"}
                      THEN "True" ELSE "None",
                      connections, ping_tasks, ping)
            /\ UNCHANGED <<connections, ping_tasks, ping>>
       ELSE EnterDisconnect(t, caller[t], "failed")
    /\ UNCHANGED next_id
    /\ UNCHANGED <<base_vars, status_vars, cache_vars, run_vars>>

Disconnect(t, s) ==
    /\ caller[t] = Idle
    /\ known(s)
    /\ EnterDisconnect(t, [pc |-> "idle", op |-> "disconnect", sid |-> s,
                           found |-> s \in connections \/ s \in ping_tasks,
                           wrote |-> "none"],
                       "none")
    /\ UNCHANGED next_id
    /\ UNCHANGED <<base_vars, status_vars, cache_vars, run_vars>>

\* the awaited heartbeat task is done: disconnect deletes the task entry and
\* the connection
Wake(t) ==
    /\ caller[t].pc = "await_ping"
    /\ task_done(ping, caller[t].sid)
    /\ LET c == caller[t]
       IN  IF c.sid \in ping_tasks
           THEN /\ ping_tasks' = ping_tasks \ {c.sid}
                /\ connections' =
                       del_connection(connections, c.sid).connections
                /\ Complete(t, c, c.wrote,
                          after_disconnect(
                              c.op,
                              del_connection(connections, c.sid).raised),
                          connections', ping_tasks', ping)
           ELSE /\ Complete(t, c, c.wrote, "KeyError", connections,
                          ping_tasks, ping)
                /\ UNCHANGED <<connections, ping_tasks>>
    /\ UNCHANGED <<ping, next_id>>
    /\ UNCHANGED <<base_vars, status_vars, cache_vars, run_vars>>

\* a cancelled heartbeat that is not tearing its session down ends
PingCancelled(s) ==
    /\ ping[s].must_cancel
    /\ ping[s].pc \in {"ready", "sleep", "send_json"}
    /\ ping' = ended(ping, s, "done")
    /\ UNCHANGED <<connections, ping_tasks, caller, next_id, returned, sent>>
    /\ UNCHANGED <<base_vars, status_vars, cache_vars, run_vars>>

\* the heartbeat starts or its sleep is over: it ends when its session is no
\* longer registered, sleeps, or sends a ping
PingWake(s) ==
    /\ ~ping[s].must_cancel
    /\ ping[s].pc \in {"ready", "sleep"}
    /\ IF s \notin connections
       THEN /\ ping' = ended(ping, s, "done")
            /\ UNCHANGED sent
       ELSE IF ping[s].pc = "ready"
       THEN /\ ping' = [ping EXCEPT ![s].pc = "sleep"]
            /\ UNCHANGED sent
       ELSE /\ Len(sent[s].calls) < env.sends
            /\ ping' = [ping EXCEPT ![s].pc = "send_json"]
            /\ sent' = [sent EXCEPT ![s] = send_json(@, [type |-> "ping"])]
    /\ UNCHANGED <<connections, ping_tasks, caller, next_id, returned>>
    /\ UNCHANGED <<base_vars, status_vars, cache_vars, run_vars>>

\* websocket.send_json comes back to the heartbeat; on a fault it enters
\* disconnect, cancels itself and awaits itself
PingWriteDone(s, ok) ==
    /\ ~ping[s].must_cancel
    /\ ping[s].pc = "send_json"
    /\ IF ok
       THEN /\ ping' = IF s \in connections
                       THEN [ping EXCEPT ![s].pc = "sleep"]
                       ELSE ended(ping, s, "done")
            /\ returned' = Return("send_message", s, TRUE, "ok", "True",
                                  connections, ping_tasks, ping')
            /\ UNCHANGED <<connections, ping_tasks>>
       ELSE IF has_heartbeat(ping_tasks, s)
       THEN /\ ping' = [ping EXCEPT ![s].pc = "await_self",
                                    ![s].must_cancel = TRUE]
            /\ UNCHANGED <<connections, ping_tasks, returned>>
       ELSE /\ connections' = connections \ {s}
            /\ ping' = ended(ping, s, "done")
            /\ returned' = Return("send_message", s, TRUE, "failed",
                                  "False", connections', ping_tasks, ping')
            /\ UNCHANGED ping_tasks
    /\ UNCHANGED <<caller, next_id, sent>>
    /\ UNCHANGED <<base_vars, status_vars, cache_vars, run_vars>>

await_itself_raises(p, s) == "RuntimeError"

\* a task that awaits itself is resumed with RuntimeError, which a pending
\* cancellation of the task replaces by CancelledError
await_itself(p, s) ==
    IF p[s].must_cancel THEN "CancelledError" ELSE "RuntimeError"

\* the heartbeat's await of itself ends with the suppressed cancellation and
\* its disconnect goes on; send_message returns and the loop ends
PingTornDown(s) ==
    /\ ping[s].pc = "await_self"
    /\ IF await_itself(ping, s) # "CancelledError"
       THEN /\ ping' = ended(ping, s, "failed")
            /\ returned' = Return("send_message", s, TRUE, "failed",
                                  await_itself(ping, s), connections,
                                  ping_tasks, ping')
            /\ UNCHANGED <<connections, ping_tasks>>
       ELSE IF s \in ping_tasks
       THEN /\ ping_tasks' = ping_tasks \ {s}
            /\ connections' = connections \ {s}
            /\ ping' = ended(ping, s, "done")
            /\ returned' = Return("send_message", s, TRUE, "failed",
                                  "False", connections', ping_tasks', ping')
       ELSE /\ ping' = ended(ping, s, "failed")
            /\ returned' = Return("send_message", s, TRUE, "failed",
                                  "KeyError", connections, ping_tasks, ping')
            /\ UNCHANGED <<connections, ping_tasks>>
    /\ UNCHANGED <<caller, next_id, sent>>
    /\ UNCHANGED <<base_vars, status_vars, cache_vars, run_vars>>

InitWsOf(e) ==
    /\ env = e
    /\ max_concurrent = 1
    /\ InitRuns
    /\ stt_ready = FALSE
    /\ llm_configured = TRUE
    /\ tts_ready = FALSE
    /\ StatusIdle
    /\ CacheIdle
    /\ connections = {}
    /\ ping_tasks = {}
    /\ ping = [s \in {Unknown} \cup 1..e.sessions |-> NoTask]
    /\ caller = [t \in 1..e.callers |-> Idle]
    /\ next_id = 0
    /\ returned = NoReturn
    /\ sent = [s \in {Unknown} \cup 1..e.sessions |-> NoWrites]

InitWs == InitWsOf(WsEnv)

InitTwoSessions == InitWsOf(TwoSessionsEnv)

NextWs ==
    \/ \E t \in DOMAIN caller : Connect(t)
    \/ \E t \in DOMAIN caller, s \in DOMAIN ping : StartPingLoop(t, s)
    \/ \E t \in DOMAIN caller, s \in DOMAIN ping : Send(t, s)
    \/ \E t \in DOMAIN caller, ok \in BOOLEAN : WriteDone(t, ok)
    \/ \E t \in DOMAIN caller, s \in DOMAIN ping : Disconnect(t, s)
    \/ \E t \in DOMAIN caller : Wake(t)
    \/ \E s \in DOMAIN ping : PingCancelled(s)
    \/ \E s \in DOMAIN ping : PingWake(s)
    \/ \E s \in DOMAIN ping, ok \in BOOLEAN : PingWriteDone(s, ok)
    \/ \E s \in DOMAIN ping : PingTornDown(s)

SpecTwoSessions == InitTwoSessions /\ [][NextWs]_vars

\* the manager with tasks that broadcast
NextBroadcast ==
    \/ NextWs
    \/ \E t \in DOMAIN caller : Broadcast(t)

SpecBroadcast == InitWs /\ [][NextBroadcast]_vars

\* the manager with endpoints that receive frames
NextEndpoint ==
    \/ NextWs
    \/ \E t \in DOMAIN caller, s \in DOMAIN ping, frame \in Frames :
           Receive(t, s, frame)

SpecEndpoint == InitWs /\ [][NextEndpoint]_vars

SpecWs == InitWs /\ [][NextWs]_vars

\* ------------------------------------------------------------- properties
InFlight == {r \in Runs : pc[r] \in {"stt", "llm", "tts"}}

Done(r) == pc[r] = "done"

Failed(r, code) ==
    /\ pc[r] = "done"
    /\ result[r].kind = "error"
    /\ result[r].error_code = code

Succeeded(r) == pc[r] = "done" /\ result[r].kind = "ok"

Stages == <<"transcribe", "generate_response", "synthesize">>

\* C1: a run that acquired the orchestrator permit releases it exactly once
\* on every exit path (success, an OrchestratorError, an unexpected
\* exception); a run rejected before admission never releases; when no run is
\* in flight or queued the semaphore is back at its configured capacity.
C1_PermitReleasedExactlyOnce ==
    /\ \A r \in Runs :
         /\ acquired[r] <= 1
         /\ released[r] <= acquired[r]
         /\ pc[r] \in {"stt", "llm", "tts"} =>
                acquired[r] = 1 /\ released[r] = 0
         /\ Done(r) => released[r] = acquired[r]
         /\ Done(r) /\ calls[r] = <<>> => acquired[r] = 0 /\ released[r] = 0
         /\ Done(r) /\ calls[r] # <<>> => released[r] = 1
    /\ (\A r \in Runs : pc[r] \in {"idle", "done"}) =>
           sem_value = max_concurrent

\* C1 witness: nothing in flight after one run succeeded, one failed with an
\* OrchestratorError and one left with a raw exception, each having held a
\* permit
C1_Witness ==
    /\ \A r \in Runs : pc[r] \in {"idle", "done"}
    /\ \E r \in Runs : Succeeded(r) /\ released[r] = 1
    /\ \E r \in Runs : Done(r) /\ result[r].kind = "error" /\ released[r] = 1
    /\ \E r \in Runs : Done(r) /\ result[r].kind = "raised" /\ released[r] = 1

\* C2: the number of runs past admission and not yet finished never exceeds
\* the capacity of the orchestrator semaphore.
C2_InFlightBounded == Cardinality(InFlight) <= max_concurrent

\* C2 witness: the pool is exhausted and another run is queued behind it
C2_Witness ==
    /\ Cardinality(InFlight) = max_concurrent
    /\ \E r \in Runs : pc[r] = "waiting"

Rejected == {r \in Runs : Failed(r, "TOO_MANY_REQUESTS")}

\* C3 as claimed: three runs overlapping on a pool of two (one of them found
\* the pool exhausted), all stage calls succeeding, end with exactly one
\* TOO_MANY_REQUESTS and two successes.
C3_ExactlyOneRejected ==
    ((\A r \in env.clients : Done(r)) /\ (\E r \in env.clients : queued[r])) =>
        /\ Cardinality(Rejected) = 1
        /\ Cardinality({r \in env.clients : Succeeded(r)}) = 2

\* C3 amended: at most one of the three runs ends with TOO_MANY_REQUESTS, and
\* only after it has been queued for the whole grace period; every other run
\* completes normally.
C3_AtMostOneRejected ==
    (\A r \in env.clients : Done(r)) =>
        /\ Cardinality(Rejected) <= 1
        /\ \A r \in env.clients :
             \/ Succeeded(r)
             \/ r \in Rejected /\ queued[r] /\ waited[r] = AcquireTimeout

\* C3 witness: the three runs are over and one of them was rejected
C3_Witness ==
    /\ \A r \in env.clients : Done(r)
    /\ Cardinality(Rejected) = 1
    /\ Cardinality({r \in env.clients : Succeeded(r)}) = 2

\* C4: a run whose acquisition does not complete within the grace period ends
\* with TOO_MANY_REQUESTS and retry_after = 5; no run waits for a permit
\* longer than the grace period; the rejected run holds no permit and invokes
\* no collaborator.
C4_AdmissionTimeout ==
    \A r \in Runs :
        /\ pc[r] \in {"waiting", "woken"} => waited[r] <= AcquireTimeout
        /\ (Done(r) /\ queued[r] /\ acquired[r] = 0) =>
               /\ Failed(r, "TOO_MANY_REQUESTS")
               /\ result[r].retry_after = {5}
               /\ waited[r] <= AcquireTimeout
        /\ Failed(r, "TOO_MANY_REQUESTS") =>
               /\ queued[r]
               /\ acquired[r] = 0
               /\ released[r] = 0
               /\ calls[r] = <<>>

\* C4 witness: a run was rejected while the pool stayed exhausted
C4_Witness ==
    \E r \in Runs :
        /\ Failed(r, "TOO_MANY_REQUESTS")
        /\ waited[r] = AcquireTimeout
        /\ Cardinality(InFlight) = max_concurrent

\* C5 as claimed: every run that fails ends with an OrchestratorError of the
\* taxonomy; no exception of a collaborator leaves process_dialogue raw.
C5_NoRawException ==
    \A r \in Runs :
        Done(r) =>
            \/ result[r].kind = "ok"
            \/ /\ result[r].kind = "error"
               /\ result[r].error_code \in OrchestratorErrorCode

bad_format(q) ==
    \/ q.data_len = 0
    \/ lower(suffix(q.filename)) \notin SUPPORTED_FORMATS

\* C6: the preconditions are checked in the order format, recognizer ready,
\* generator configured, synthesizer ready, admission; the first failing check
\* gives the error kind and no collaborator is invoked.
C6_PreconditionOrder ==
    \A r \in Runs :
        pc[r] # "idle" =>
            LET first == IF bad_format(req[r]) THEN "INVALID_AUDIO_FORMAT"
                         ELSE IF ~stt_ready THEN "STT_SERVICE_UNAVAILABLE"
                         ELSE IF ~llm_configured THEN "LLM_SERVICE_UNAVAILABLE"
                         ELSE IF ~tts_ready THEN "TTS_SERVICE_UNAVAILABLE"
                         ELSE "admission"
            IN  IF first = "admission"
                THEN queued[r] \/ acquired[r] = 1
                ELSE /\ Failed(r, first)
                     /\ calls[r] = <<>>
                     /\ ~queued[r]
                     /\ acquired[r] = 0

\* C6 witness: a request with a bad format reaches a server where no service
\* is ready and is rejected for its format
C6_Witness ==
    \E r \in Runs :
        /\ bad_format(req[r])
        /\ req[r].data_len > 0
        /\ ~stt_ready /\ ~llm_configured /\ ~tts_ready
        /\ Failed(r, "INVALID_AUDIO_FORMAT")

IsPrefix(s, t) == Len(s) <= Len(t) /\ \A i \in 1..Len(s) : s[i] = t[i]

\* C7: within a run the collaborator invocations are a prefix of
\* <transcribe, generate_response, synthesize>, each at most once, and no
\* stage is invoked after one has failed.
C7_StagesInOrder ==
    \A r \in Runs :
        /\ IsPrefix(calls[r], Stages)
        /\ stt_ret[r].kind = "raise" => calls[r] = SubSeq(Stages, 1, 1)
        /\ llm_ret[r].kind = "raise" => calls[r] = SubSeq(Stages, 1, 2)
        /\ (Done(r) /\ result[r].kind # "ok" /\ tts_ret[r].kind = "none") =>
               Len(calls[r]) < 3

\* C7 witness: one run went through the three stages, another stopped at a
\* generator fault
C7_Witness ==
    /\ \E r \in Runs : Succeeded(r) /\ calls[r] = Stages
    /\ \E r \in Runs : Done(r) /\ llm_ret[r].kind = "raise"
                               /\ stt_ret[r].kind = "ret"

\* C8 as claimed: every fault of the synthesizer is reported as
\* SYNTHESIS_FAILED.
C8_AnySynthesisFaultIsSynthesisFailed ==
    \A r \in Runs :
        (Done(r) /\ tts_ret[r].kind = "raise") => Failed(r, "SYNTHESIS_FAILED")

\* C8 amended: a ValueError of the synthesizer (its content validation) is
\* reported as SYNTHESIS_FAILED, any other exception of the synthesizer as
\* TTS_SERVICE_UNAVAILABLE.
C8_SynthesisFaultMapping ==
    \A r \in Runs :
        (Done(r) /\ tts_ret[r].kind = "raise") =>
            IF tts_ret[r].exc = "ValueError"
            THEN Failed(r, "SYNTHESIS_FAILED")
            ELSE Failed(r, "TTS_SERVICE_UNAVAILABLE")

\* C8 witness: the synthesizer has rejected a text in one run
C8_Witness ==
    \E r \in Runs :
        /\ Done(r)
        /\ tts_ret[r].kind = "raise"
        /\ tts_ret[r].exc = "ValueError"
        /\ llm_ret[r].kind = "ret"

\* C9 as claimed: a generator fault ends the run with LLM_RATE_LIMITED and
\* retry_after = 60 (rate limit), LLM_CONNECTION_ERROR (connection) or
\* LLM_SERVICE_UNAVAILABLE (anything else), and synthesis is not invoked.
C9_GeneratorFaultMapping ==
    \A r \in Runs :
        (Done(r) /\ llm_ret[r].kind = "raise") =>
            /\ IF contains(llm_ret[r].msg, "LLM_RATE_LIMITED")
               THEN Failed(r, "LLM_RATE_LIMITED") /\ result[r].retry_after = {60}
               ELSE IF contains(llm_ret[r].msg, "LLM_CONNECTION_ERROR")
               THEN Failed(r, "LLM_CONNECTION_ERROR")
               ELSE Failed(r, "LLM_SERVICE_UNAVAILABLE")
            /\ \A i \in 1..Len(calls[r]) : calls[r][i] # "synthesize"

\* C10: a recognized text that is empty after trimming, whitespace-only text
\* included, ends the run with SPEECH_RECOGNITION_FAILED and generation is not
\* invoked.
C10_EmptyTranscription ==
    \A r \in Runs :
        (stt_ret[r].kind = "ret" /\ stt_ret[r].text.body = 0) =>
            /\ Failed(r, "SPEECH_RECOGNITION_FAILED")
            /\ result[r].error_code \notin
                   {"STT_SERVICE_UNAVAILABLE", "INVALID_AUDIO_FORMAT"}
            /\ calls[r] = SubSeq(Stages, 1, 1)
            /\ llm_ret[r].kind = "none"

\* C10 witness: the recognizer returned whitespace only
C10_Witness ==
    \E r \in Runs :
        /\ stt_ret[r].kind = "ret"
        /\ stt_ret[r].text.body = 0
        /\ stt_ret[r].text.lead > 0
        /\ Done(r)

\* C11: after a recognition that returned non-empty text the run fails with
\* AUDIO_TOO_SHORT (details duration, min_duration) exactly when the reported
\* duration is strictly below the minimum, with AUDIO_TOO_LONG (details
\* duration, max_duration) exactly when strictly above the maximum; a duration
\* equal to a bound is accepted (generation is invoked), and a failing one
\* never reaches generation.
C11_DurationBounds ==
    \A r \in Runs :
        (stt_ret[r].kind = "ret" /\ len(strip(stt_ret[r].text)) > 0) =>
            LET d == stt_ret[r].duration_ms
            IN  /\ Failed(r, "AUDIO_TOO_SHORT")
                        <=> d < ORCHESTRATOR_MIN_AUDIO_DURATION
                /\ Failed(r, "AUDIO_TOO_LONG")
                        <=> d > ORCHESTRATOR_MAX_AUDIO_DURATION
                /\ Failed(r, "AUDIO_TOO_SHORT") =>
                        result[r].details =
                            { <<"duration", d>>,
                              <<"min_duration",
                                ORCHESTRATOR_MIN_AUDIO_DURATION>> }
                /\ Failed(r, "AUDIO_TOO_LONG") =>
                        result[r].details =
                            { <<"duration", d>>,
                              <<"max_duration",
                                ORCHESTRATOR_MAX_AUDIO_DURATION>> }
                /\ IF d < ORCHESTRATOR_MIN_AUDIO_DURATION
                      \/ d > ORCHESTRATOR_MAX_AUDIO_DURATION
                   THEN calls[r] = SubSeq(Stages, 1, 1)
                   ELSE IsPrefix(SubSeq(Stages, 1, 2), calls[r])

\* C11 witness: one run was refused for a duration just above the maximum and
\* another went on to generation with a duration equal to the minimum
C11_Witness ==
    \E r, q \in Runs :
        /\ Failed(r, "AUDIO_TOO_LONG")
        /\ stt_ret[r].duration_ms = ORCHESTRATOR_MAX_AUDIO_DURATION + 1
        /\ stt_ret[q].kind = "ret"
        /\ stt_ret[q].duration_ms = ORCHESTRATOR_MIN_AUDIO_DURATION
        /\ Len(calls[q]) >= 2

\* C12: get_status reports overall healthy if and only if stt, llm and tts are
\* all healthy, overall unhealthy if and only if at least one of them is
\* unhealthy, and overall degraded in every remaining case (at least one
\* degraded, none unhealthy).
C12_StatusAggregation ==
    status.status # "none" =>
        LET sub == {status.services[k] : k \in {"stt", "llm", "tts"}}
        IN  /\ DOMAIN status.services = {"stt", "llm", "tts"}
            /\ sub \subseteq HealthStatus
            /\ status.status \in HealthStatus
            /\ status.status = "healthy" <=> sub = {"healthy"}
            /\ status.status = "unhealthy" <=> "unhealthy" \in sub
            /\ status.status = "degraded"
                   <=> ("degraded" \in sub /\ "unhealthy" \notin sub)

\* C12 witness: a report with a degraded and an unhealthy service together
C12_Witness ==
    /\ status.status = "unhealthy"
    /\ status.services.stt = "healthy"
    /\ \E k \in {"llm", "tts"} : status.services[k] = "degraded"

\* the last n elements of s, all of s when it is shorter
tail(s, n) == SubSeq(s, (IF Len(s) > n THEN Len(s) - n ELSE 0) + 1, Len(s))

\* C13: after any sequence of add_message calls every conversation holds at
\* most max_messages turns, and they are exactly the most recently appended
\* ones in the order in which they were appended.
C13_RetainsNewestTurns ==
    \A i \in 1..Len(cache) :
        /\ Len(cache[i].messages) <= max_messages
        /\ cache[i].messages = tail(log[cache[i].id], max_messages)

\* C13 witness: a conversation that was appended to more often than it may
\* hold turns
C13_Witness ==
    \E i \in 1..Len(cache) :
        /\ Len(log[cache[i].id]) > max_messages
        /\ Len(cache[i].messages) = max_messages
        /\ last.op = "add_message"
        /\ last.id = cache[i].id

\* the conversations of c that have not expired at time t
alive(c, t, ttl_) ==
    {c[i].id : i \in {j \in 1..Len(c) : t - c[j].updated_at <= ttl_}}

updated_at(c, id) == c[find(c, id)].updated_at

Inserts(id) == GetOrCreate(id) \/ AddMessage(id)

\* C14: when the cache holds max_conversations (unexpired) entries and a new
\* id is inserted, exactly one existing entry is evicted and it is one with
\* the smallest updated_at; accessing an id that is cached evicts nothing; and
\* after inserting A, B, C, D in that order into a cache with
\* max_conversations = 3, A is gone, the other three are cached,
\* get_or_create(A) returns an empty record and count() is 3.
C14_EvictsLeastRecentlyUpdated ==
    [][ LET held == alive(cache, now, ttl)
        IN  /\ \A id \in env.ids :
                 Inserts(id) =>
                     IF id \in held \/ Cardinality(held) < max_conversations
                     THEN ids(cache') = held \cup {id}
                     ELSE \E e \in held :
                            /\ ids(cache') = (held \ {e}) \cup {id}
                            /\ \A o \in held : updated_at(cache, e)
                                                 <= updated_at(cache, o)
            /\ \A a, b, c, d \in env.ids :
                 ( /\ Cardinality({a, b, c, d}) = 4
                   /\ max_conversations = 3
                   /\ inserted.only
                   /\ inserted.ids = <<a, b, c, d>>
                   /\ now <= ttl )
                 => /\ ids(cache) = {b, c, d}
                    /\ Count => last'.ret = 3
                    /\ GetOrCreate(a) =>
                          /\ last'.ret.messages = <<>>
                          /\ a \in ids(cache')
      ]_vars

\* C14 witness: A, B, C and D were inserted in that order, A with a turn, into
\* a cache with room for three, and nothing else was called
C14_Witness ==
    /\ max_conversations = 3
    /\ inserted.only
    /\ inserted.ids = <<"A", "B", "C", "D">>
    /\ last.id = "D"
    /\ ids(cache) = {"B", "C", "D"}
    /\ \E i \in 1..Len(cache) : Len(cache[i].messages) > 0

\* C15: after any sequence of get_or_create, add_message, clear and count the
\* cache never holds more than max_conversations conversations.
C15_CapacityBound == Len(cache) <= max_conversations

\* C15 witness: more conversations were created than the cache has room for,
\* within one ttl and with nothing cleared, and the cache is full
C15_Witness ==
    /\ inserted.only
    /\ Len(inserted.ids) > max_conversations
    /\ now <= ttl
    /\ Len(cache) = max_conversations

messages(c, id) == c[find(c, id)].messages

\* C16: a conversation whose age exceeds ttl is never returned by
\* get_or_create: the next get_or_create for its id returns a fresh record
\* with no turns, and count() does not include it.
C16_ExpiredNeverReturned ==
    [][ LET held == alive(cache, now, ttl)
        IN  /\ \A id \in env.ids :
                 GetOrCreate(id) =>
                     /\ now - last'.ret.updated_at <= ttl
                     /\ last'.ret = cache'[find(cache', id)]
                     /\ id \notin held =>
                            /\ last'.ret.messages = <<>>
                            /\ last'.ret.updated_at = now
                     /\ id \in held =>
                            last'.ret.messages = messages(cache, id)
            /\ Count => last'.ret = Cardinality(held)
      ]_vars

\* C16 witness: get_or_create was called for a conversation that had expired
\* in the cache
C16_Witness ==
    /\ last.op = "get_or_create"
    /\ last.id \in last.swept
    /\ last.ret.messages = <<>>

\* C17 as claimed: get_or_create, add_message, count and clear all treat a
\* record whose age exceeds ttl as gone, so clear(id) on an expired
\* conversation reports that nothing was removed.
C17_ExpiryOnEveryAccess ==
    [][ LET held == alive(cache, now, ttl)
        IN  /\ \A id \in env.ids :
                 /\ GetOrCreate(id) =>
                        (id \notin held => last'.ret.messages = <<>>)
                 /\ AddMessage(id) =>
                        (id \notin held => Len(last'.ret.messages) = 1)
                 /\ Clear(id) => last'.ret = (id \in held)
            /\ Count => last'.ret = Cardinality(held)
      ]_vars

\* C18: clear(id) returns true and removes exactly the record of id when one
\* is cached, returns false when none is, and in both cases leaves the turns
\* and updated_at of every other conversation unchanged.
C18_ClearFrame ==
    [][ \A id \in env.ids :
          Clear(id) =>
              /\ last'.ret = (id \in ids(cache))
              /\ cache' = SelectSeq(cache, LAMBDA v : v.id # id)
      ]_vars

\* C18 witness: a record was cleared and an expired record of another
\* conversation is still cached
C18_Witness ==
    /\ last.op = "clear"
    /\ last.ret = TRUE
    /\ \E i \in 1..Len(cache) :
         /\ cache[i].id # last.id
         /\ now - cache[i].updated_at > ttl
         /\ Len(cache[i].messages) > 0

\* C19 as claimed: the turns of a conversation are in the order of their
\* add_message calls, and an append to one conversation leaves every other
\* conversation with the turns it had.
C19_AppendsIndependent ==
    [][ \A id \in env.ids :
          AddMessage(id) =>
              LET new == messages(cache', id)
              IN  /\ new[Len(new)] = log'[id][Len(log'[id])]
                  /\ \A k \in 1..(Len(new) - 1) :
                         new[k + 1].content = new[k].content + 1
                  /\ \A o \in ids(cache) \ {id} :
                         /\ o \in ids(cache')
                         /\ messages(cache', o) = messages(cache, o)
      ]_vars

\* C19 amended: the turns of a conversation are in the order of their
\* add_message calls, and an append to one conversation leaves every other
\* conversation that is still cached after it with the turns and the
\* updated_at it had, in the same order among themselves; the append can
\* remove other conversations whole, the expired ones and, when it creates
\* its record in a full cache, the least recently updated one.
C19_AppendsKeepOtherTurns ==
    [][ \A id \in env.ids :
          AddMessage(id) =>
              LET new == messages(cache', id)
                  held == alive(cache, now, ttl)
                  old == IF id \in held THEN messages(cache, id) ELSE <<>>
              IN  /\ new[Len(new)] = log'[id][Len(log'[id])]
                  /\ new = tail(Append(old, new[Len(new)]), max_messages)
                  /\ \A k \in 1..(Len(new) - 1) :
                         new[k + 1].content = new[k].content + 1
                  /\ ids(cache') \ {id} \subseteq held
                  /\ SelectSeq(cache', LAMBDA v : v.id # id)
                       = SelectSeq(cache, LAMBDA v : v.id \in ids(cache')
                                                     /\ v.id # id)
                  /\ Cardinality(held \ ids(cache')) <= 1
                  /\ (id \in held \/ Cardinality(held) < max_conversations)
                         => held \subseteq ids(cache')
      ]_vars

\* C19 witness: turns were appended to two conversations in turn, the last one
\* to the conversation that was created first
C19_Witness ==
    /\ Len(cache) = 2
    /\ last.op = "add_message"
    /\ last.id = cache[1].id
    /\ Len(cache[1].messages) = 2
    /\ Len(cache[2].messages) = 2
    /\ Len(log[cache[1].id]) = 3

\* C20 as claimed: send_message never raises to its caller; it returns true
\* when the write succeeds, false when the session is not registered, and on
\* a write failure it returns false with the session removed from the
\* connection registry and its heartbeat cancelled and removed.
C20_SendNeverRaises ==
    returned.op = "send_message" =>
        /\ returned.val \in {"True", "False"}
        /\ returned.val = "True" <=> returned.wrote = "ok"
        /\ returned.wrote = "failed" => returned.torn


\* C21: every manager call on a session that overlaps another call or the
\* heartbeat's own teardown returns without raising; a call that tore the
\* session down leaves it absent from both registries with its heartbeat
\* ended, and no other session's entries change in the step it returns in
C21_OverlappingCallsComplete ==
    [][returned' # returned =>
          /\ returned'.val # "KeyError"
          /\ (returned'.op = "disconnect" \/ returned'.wrote = "failed") =>
                 /\ returned'.torn
                 /\ \A o \in DOMAIN ping \ {returned'.sid} :
                        /\ o \in connections' <=> o \in connections
                        /\ o \in ping_tasks' <=> o \in ping_tasks]_vars


\* C22: a disconnect of a session that is in neither registry, because an
\* earlier disconnect removed it or because it was never registered, returns
\* at once without raising and changes neither registry nor any heartbeat;
\* and when a disconnect returns, raising or not, its session is in neither
\* registry, so that a second call in a row is such a call
C22_DisconnectIdempotent ==
    [][/\ returned' # returned /\ returned'.op = "disconnect" =>
              /\ returned'.sid \notin connections'
              /\ returned'.sid \notin ping_tasks'
       /\ \A t \in DOMAIN caller, s \in DOMAIN ping :
              Disconnect(t, s) /\ s \notin connections /\ s \notin ping_tasks
                  => /\ connections' = connections
                     /\ ping_tasks' = ping_tasks
                     /\ ping' = ping
                     /\ caller'[t] = Idle
                     /\ returned'.op = "disconnect"
                     /\ returned'.sid = s
                     /\ returned'.val = "None"]_vars

\* C22 witness: a disconnect has returned that found its session, an id
\* handed out earlier, in neither registry
C22_Witness ==
    /\ returned.op = "disconnect"
    /\ returned.sid \in 1..next_id
    /\ ~returned.found
    /\ returned.val = "None"


\* C23: once a session that was registered is no longer in the connection
\* registry, which is the last thing a completed disconnect does, and
\* whenever a disconnect returns without raising, the session's heartbeat
\* is in none of the states of its loop (asleep, writing a ping, tearing the
\* session down), nothing more is handed to the session's transport, and
\* the session stays out of the registry
C23_SilentAfterDisconnect ==
    [][/\ ( /\ returned' # returned
            /\ returned'.op = "disconnect"
            /\ returned'.val = "None" ) =>
              /\ returned'.sid \notin connections'
              /\ ping'[returned'.sid].pc \in {"none", "done"}
       /\ \A s \in DOMAIN ping :
              s \in 1..next_id /\ s \notin connections =>
                  /\ sent'[s] = sent[s]
                  /\ ping[s].pc \in {"none", "ready", "done"}
                  /\ ping'[s].pc \in {"none", "ready", "done"}
                  /\ s \notin connections']_vars

\* C23 witness: a disconnect has returned for a registered session whose
\* heartbeat had handed a ping to the transport
C23_Witness ==
    /\ returned.op = "disconnect"
    /\ returned.val = "None"
    /\ returned.found
    /\ returned.sid \in 1..next_id
    /\ returned.sid \notin connections
    /\ Len(sent[returned.sid].calls) >= 2
    /\ ping[returned.sid].pc = "done"


\* C24: no session ever has more than one heartbeat task that has not
\* ended, and start_ping_loop for a session that has an entry in the
\* heartbeat registry changes neither registry nor any heartbeat
C24_OneHeartbeat ==
    [][/\ \A s \in DOMAIN ping : ping'[s].loops <= 1
       /\ \A t \in DOMAIN caller, s \in DOMAIN ping :
              StartPingLoop(t, s) /\ s \in ping_tasks =>
                  /\ ping' = ping
                  /\ ping_tasks' = ping_tasks
                  /\ connections' = connections
                  /\ sent' = sent
                  /\ caller' = caller]_vars

\* C24 witness: start_ping_loop has returned for a session whose heartbeat
\* is in its loop
C24_Witness ==
    /\ returned.op = "start_ping_loop"
    /\ returned.found
    /\ returned.sid \in connections
    /\ returned.sid \in ping_tasks
    /\ ping[returned.sid].pc \in {"sleep", "send_json"}
    /\ ping[returned.sid].loops = 1


\* C25: connect registers its session under an id under which no transport
\* was ever written to, hence no session ever registered, and in the same
\* step hands the acknowledgement carrying that id to the transport as its
\* first message; the first message a transport was handed is always the
\* acknowledgement of its own id
C25_FreshIdAckFirst ==
    [][/\ \A t \in DOMAIN caller :
              Connect(t) =>
                  \E s \in DOMAIN ping :
                      /\ s \notin connections
                      /\ sent[s] = NoWrites
                      /\ connections' = connections \cup {s}
                      /\ sent'[s].calls = <<1>>
                      /\ caller'[t].sid = s
       /\ \A s \in DOMAIN ping :
              sent'[s] # NoWrites =>
                  sent'[s].first = [type |-> "connection_ack",
                                    session_id |-> s]]_vars

\* C25 witness: a second session is connected after the first one was torn
\* down, and its transport has been handed a message after its
\* acknowledgement
C25_Witness ==
    /\ next_id = 2
    /\ 1 \notin connections
    /\ 2 \in connections
    /\ sent[1].first = [type |-> "connection_ack", session_id |-> 1]
    /\ sent[2].first = [type |-> "connection_ack", session_id |-> 2]
    /\ Len(sent[2].calls) = 2


\* C27: a session id that was registered and is no longer in the connection
\* registry is not in it after any step, and the id a connect registers is
\* none of the ids registered before
C27_DisconnectedIsTerminal ==
    [][/\ \A s \in DOMAIN ping :
              sent[s] # NoWrites /\ s \notin connections =>
                  s \notin connections'
       /\ \A t \in DOMAIN caller :
              Connect(t) => sent[caller'[t].sid] = NoWrites]_vars

\* C27 witness: the connect of a second session has returned after the
\* first session was removed from the registry
C27_Witness ==
    /\ returned.op = "connect"
    /\ returned.sid = 2
    /\ returned.wrote = "ok"
    /\ sent[1] # NoWrites
    /\ 1 \notin connections
    /\ 2 \in connections


C26_BroadcastReachesEverySession ==
    returned.op = "broadcast" =>
        /\ returned.val = "None"
        /\ [i \in 1..Len(returned.results) |-> returned.results[i].sid]
               = keys(returned.snapshot)
        /\ returned.count =
               Cardinality({i \in 1..Len(returned.results) :
                               returned.results[i].wrote = "ok"})
        /\ \A i \in 1..Len(returned.results) :
               returned.results[i].wrote # "ok" =>
                   returned.results[i].sid \notin connections


InvalidFrames == Frames \ {"pong"}

\* C28: when the endpoint has dealt with a frame that is not valid JSON or
\* is not a known client message, the error it sent is recoverable and it
\* is back in receive_text; when the write of the error succeeded, dealing
\* with the frame has taken the session out of no registry and has left its
\* heartbeat as it was
C28_InvalidFrameIsRecoverable ==
    [][ ( /\ returned' # returned
          /\ returned'.op = "frame"
          /\ returned'.frame \in InvalidFrames ) =>
            /\ returned'.recoverable
            /\ returned'.receiving
            /\ returned'.wrote = "ok" =>
                   /\ connections' = connections
                   /\ ping' = ping
                   /\ ping_tasks' = ping_tasks ]_vars


\* C30: when n successful generate_response calls were made one after the
\* other on a conversation whose record was neither removed nor trimmed
\* meanwhile, the record holds 2n turns, the user message and the answer of
\* the first call, of the second call and so on, and the prompt of each
\* call was the system prompt, the turns of the calls before it and its
\* own user message
C30_TurnsAlternateAndPromptHasHistory ==
    \A id \in ConversationIds :
        ( /\ history[id].ok
          /\ id \in ids(cache)
          /\ ~(generate.pc = "api" /\ generate.id = id)
          /\ Len(log[id]) <= max_messages ) =>
            LET made == history[id].calls
                m == messages(cache, id)
            IN  /\ Len(m) = 2 * Len(made)
                /\ \A k \in 1..Len(made) :
                       /\ m[2 * k - 1] = made[k].message
                       /\ m[2 * k - 1].role = "user"
                       /\ m[2 * k] = made[k].response
                       /\ m[2 * k].role = "assistant"
                       /\ made[k].prompt =
                              <<SYSTEM_PROMPT>> \o SubSeq(m, 1, 2 * k - 1)

\* C30 witness: two successful calls were made one after the other on one
\* conversation
C30_Witness ==
    \E id \in ConversationIds :
        /\ history[id].ok
        /\ Len(history[id].calls) = 2
        /\ id \in ids(cache)
        /\ generate.pc = "idle"
        /\ Len(messages(cache, id)) = 4

\* ------------------------------------------------------------ cancellation
cancel_acquire_keeps_permit(value, waiters, p, r) ==
    [value |-> value, waiters |-> remove(waiters, r),
     pc |-> [p EXCEPT ![r] = "done"]]

\* Semaphore.acquire when CancelledError arrives at its await: the future is
\* taken out of the queue, and a permit that a release had already handed to
\* it is put back and offered to the next waiter
cancel_acquire(value, waiters, p, r) ==
    LET ws == remove(waiters, r)
        q == [p EXCEPT ![r] = "done"]
    IN  IF p[r] = "woken"
        THEN LET s == release(value, ws, q)
             IN  [value |-> s.value, waiters |-> ws, pc |-> s.pc]
        ELSE [value |-> value, waiters |-> ws, pc |-> q]

Cancelled == Raised("CancelledError")

\* the task of a run is cancelled while it awaits acquire(): the cancellation
\* is neither the timeout's nor a TimeoutError, so it leaves process_dialogue
\* before the try block
CancelQueued(r) ==
    /\ pc[r] \in {"waiting", "woken"}
    /\ LET s == cancel_acquire(sem_value, sem_waiters, pc, r)
       IN  /\ sem_value' = s.value
           /\ sem_waiters' = s.waiters
           /\ pc' = s.pc
    /\ result' = [result EXCEPT ![r] = Cancelled]
    /\ UNCHANGED <<svc_vars, req, waited, queued, acquired, released, calls,
                   ret_vars>>

\* the task of a run is cancelled while it awaits transcribe,
\* generate_response or synthesize: no except clause of the try block catches
\* CancelledError, the finally clause runs
CancelAdmitted(r) ==
    /\ pc[r] \in {"stt", "llm", "tts"}
    /\ Finish(r, Cancelled)
    /\ UNCHANGED <<svc_vars, req, waited, queued, acquired, calls, ret_vars>>

\* the runs of a loaded server whose callers may go away at any time
NextCancel ==
    \/ Next
    \/ \E r \in Runs : CancelQueued(r)
    \/ \E r \in Runs : CancelAdmitted(r)

\* callers that may be cancelled, collaborators that answer or fail
CancelEnv ==
    [clients  |-> Runs,
     requests |-> { [filename |-> wav, data_len |-> 1] },
     stt      |-> { Raise("RuntimeError", <<"MODEL_NOT_LOADED">>),
                    SttRet(Text(0, 3, 0), 1000) },
     llm      |-> { LlmRet(Text(0, 5, 0)) },
     tts      |-> { Raise("RuntimeError", <<"inference">>), TtsRet }]

\* every service ready, any configured capacity
InitCancel ==
    /\ env = CancelEnv
    /\ stt_ready = TRUE
    /\ llm_configured = TRUE
    /\ tts_ready = TRUE
    /\ max_concurrent \in 1..MaxCapacity
    /\ InitRuns
    /\ StatusIdle
    /\ CacheIdle
    /\ WsIdle

SpecCancel == InitCancel /\ [][NextCancel]_vars

\* the permits that are free or were handed to a run still inside acquire()
Available == sem_value + Cardinality({r \in Runs : pc[r] = "woken"})

\* C31: a run cancelled while it awaits recognition, generation or synthesis
\* releases its permit exactly once; a run cancelled while it waits for
\* admission never holds or releases a permit and leaves the permits available
\* for admission as they were; at every moment the available permits and the
\* runs in flight add up to the capacity.
C31_CancelledRunKeepsNoPermit ==
    [][/\ \A r \in Runs :
            (pc[r] # "done" /\ pc'[r] = "done" /\ result'[r] = Cancelled) =>
                IF pc[r] \in {"stt", "llm", "tts"}
                THEN /\ acquired[r] = 1 /\ released[r] = 0
                     /\ acquired'[r] = 1 /\ released'[r] = 1
                     /\ Available' = Available + 1
                ELSE /\ acquired'[r] = 0 /\ released'[r] = 0
                     /\ Available' = Available
                     /\ pc[r] = "waiting" => sem_value' = sem_value
       /\ \A r \in Runs :
            (pc[r] = "done" /\ result[r] = Cancelled) =>
                released'[r] = released[r] /\ acquired'[r] = acquired[r]
       /\ Available' + Cardinality(InFlight)' = max_concurrent]_vars

\* C31 witness: one run was cancelled in flight and one while queued, a
\* third got the permit the first gave back, and the pool is whole again
C31_Witness ==
    /\ \E r \in Runs : Done(r) /\ result[r] = Cancelled /\ released[r] = 1
    /\ \E r \in Runs : Done(r) /\ result[r] = Cancelled /\ queued[r]
                       /\ acquired[r] = 0
    /\ \E r \in Runs : Succeeded(r) /\ queued[r]
    /\ sem_value = max_concurrent

\* ------------------------------------------- the semaphores of the services
pool_exit_keeps_permit(sem, p, r) == [value |-> sem.value, pc |-> p]

\* the end of `async with self._semaphore`: Semaphore.release()
pool_exit(sem, p, r) == release(sem.value, sem.waiters, p)

\* the stage a run is in names the service whose semaphore it uses
pool_of(stage) == stage

\* one request, a recognizer and a synthesizer that answer or fail; the
\* orchestrator admits two runs, the generator and the synthesizer one each
PoolsEnv ==
    [clients  |-> Runs \cap (1..3),
     requests |-> { [filename |-> wav, data_len |-> 1] },
     stt      |-> { Raise("RuntimeError", <<"MODEL_NOT_LOADED">>),
                    SttRet(Text(0, 3, 0), 1000) },
     llm      |-> { LlmRet(Text(0, 5, 0)) },
     tts      |-> { Raise("RuntimeError", <<"inference">>), TtsRet },
     llm_max_concurrent |-> 1,
     tts_max_concurrent |-> 1]

\* a run that called transcribe, generate_response or synthesize reaches
\* `async with self._semaphore`: it takes a permit or queues for one
PoolEnter(r) ==
    /\ pc[r] \in {"stt", "llm", "tts"}
    /\ inner[r] = "none"
    /\ LET k == pool_of(pc[r])
       IN  IF ~locked(pools[k].value, pools[k].waiters)
           THEN /\ pools' = [pools EXCEPT ![k].value = @ - 1]
                /\ inner' = [inner EXCEPT ![r] = "in"]
           ELSE /\ pools' = [pools EXCEPT ![k].waiters = Append(@, r)]
                /\ inner' = [inner EXCEPT ![r] = "waiting"]
    /\ UNCHANGED <<base_vars, health_vars, conversation_id, prompts,
                   cache_vars, ws_vars, run_vars>>

\* a run woken by a release returns from acquire() of the service
PoolResume(r) ==
    /\ inner[r] = "woken"
    /\ LET k == pool_of(pc[r])
           ws == remove(pools[k].waiters, r)
           p == [inner EXCEPT ![r] = "in"]
           s == IF pools[k].value > 0
                THEN _wake_up_next(pools[k].value, ws, p)
                ELSE [value |-> pools[k].value, pc |-> p]
       IN  /\ pools' = [pools EXCEPT ![k] = [value |-> s.value,
                                            waiters |-> ws]]
           /\ inner' = s.pc
    /\ UNCHANGED <<base_vars, health_vars, conversation_id, prompts,
                   cache_vars, ws_vars, run_vars>>

\* the protected call of the stage of run r is over: the permit of the
\* service is released
PoolExit(r) ==
    LET k == pool_of(pc[r])
        s == pool_exit(pools[k], [inner EXCEPT ![r] = "none"], r)
    IN  /\ pools' = [pools EXCEPT ![k].value = s.value]
        /\ inner' = s.pc

\* transcribe raises before it reaches its semaphore, or its protected call
\* returns or raises; the run validates and calls generate_response
PoolSttReturn(r) ==
    /\ pc[r] = "stt"
    /\ \E b \in env.stt :
         LET o == after_transcribe(b, llm_configured)
         IN  /\ \/ inner[r] = "in" /\ PoolExit(r)
                \/ inner[r] = "none" /\ b.kind = "raise"
                                     /\ UNCHANGED <<pools, inner>>
             /\ stt_ret' = [stt_ret EXCEPT ![r] = b]
             /\ llm_ret' = [llm_ret EXCEPT ![r] = o.next]
             /\ calls' = [calls EXCEPT ![r] = @ \o o.called]
             /\ IF o.res.kind # "none"
                THEN Finish(r, o.res)
                ELSE /\ pc' = [pc EXCEPT ![r] = "llm"]
                     /\ UNCHANGED <<sem_vars, released, result>>
    /\ UNCHANGED <<base_vars, health_vars, conversation_id, prompts,
                   cache_vars, ws_vars, req,
                   waited, queued, acquired, tts_ret>>

\* the API call of generate_response returns or raises inside the semaphore
\* of the generator; the run calls synthesize
PoolLlmReturn(r) ==
    /\ pc[r] = "llm"
    /\ inner[r] = "in"
    /\ PoolExit(r)
    /\ \E b \in env.llm :
         LET o == after_generate(b, tts_ready)
         IN  /\ llm_ret' = [llm_ret EXCEPT ![r] = b]
             /\ tts_ret' = [tts_ret EXCEPT ![r] = o.next]
             /\ calls' = [calls EXCEPT ![r] = @ \o o.called]
             /\ IF o.res.kind # "none"
                THEN Finish(r, o.res)
                ELSE /\ pc' = [pc EXCEPT ![r] = "tts"]
                     /\ UNCHANGED <<sem_vars, released, result>>
    /\ UNCHANGED <<base_vars, health_vars, conversation_id, prompts,
                   cache_vars, ws_vars, req,
                   waited, queued, acquired, stt_ret>>

\* the inference of synthesize returns or raises inside the semaphore of the
\* synthesizer; the run ends
PoolTtsReturn(r) ==
    /\ pc[r] = "tts"
    /\ inner[r] = "in"
    /\ PoolExit(r)
    /\ \E b \in env.tts :
         /\ tts_ret' = [tts_ret EXCEPT ![r] = b]
         /\ Finish(r, after_synthesize(b))
    /\ UNCHANGED <<base_vars, health_vars, conversation_id, prompts,
                   cache_vars, ws_vars, req,
                   waited, queued, acquired, calls, stt_ret, llm_ret>>

\* three callers, every service ready, the orchestrator admitting two
InitPools ==
    /\ env = PoolsEnv
    /\ stt_ready = TRUE
    /\ llm_configured = TRUE
    /\ tts_ready = TRUE
    /\ max_concurrent = 2
    /\ InitRuns
    /\ llm_client = TRUE
    /\ llm_last_error = FALSE
    /\ tts_last_error = FALSE
    /\ status = NoStatus
    /\ generate = NoGenerate
    /\ history = [i \in ConversationIds |-> NoHistory]
    /\ PoolsIdle(PoolsEnv.llm_max_concurrent, PoolsEnv.tts_max_concurrent)
    /\ CacheIdle
    /\ WsIdle

NextPools ==
    \/ \E r \in Runs : Start(r)
    \/ Tick
    \/ \E r \in Runs : Resume(r)
    \/ \E r \in Runs : TimeoutWaiting(r)
    \/ \E r \in Runs : TimeoutWoken(r)
    \/ \E r \in Runs : PoolEnter(r)
    \/ \E r \in Runs : PoolResume(r)
    \/ \E r \in Runs : PoolSttReturn(r)
    \/ \E r \in Runs : PoolLlmReturn(r)
    \/ \E r \in Runs : PoolTtsReturn(r)

SpecPools == InitPools /\ [][NextPools]_vars

\* the event loop runs every task that is ready, and every protected call of
\* a collaborator comes back
FairPools ==
    \A r \in Runs :
        /\ WF_vars(Resume(r))
        /\ WF_vars(PoolEnter(r))
        /\ WF_vars(PoolResume(r))
        /\ WF_vars(PoolSttReturn(r))
        /\ WF_vars(PoolLlmReturn(r))
        /\ WF_vars(PoolTtsReturn(r))

LiveSpecPools == SpecPools /\ FairPools

\* C32: every run that was admitted eventually ends with its orchestrator
\* permit released, whatever other runs hold or wait for the permits of the
\* recognizer, the generator and the synthesizer.
C32_AdmittedRunsTerminate ==
    \A r \in Runs :
        (pc[r] \in {"stt", "llm", "tts"}) ~> (Done(r) /\ released[r] = 1)

\* C32 witness: both admitted runs are at the generator, one inside its
\* semaphore and one queued for it, while a third run waits for admission
C32_Witness ==
    \E r1, r2, r3 \in Runs :
        /\ pc[r1] = "llm" /\ inner[r1] = "in"
        /\ pc[r2] = "llm" /\ inner[r2] = "waiting"
        /\ pc[r3] = "waiting"
        /\ sem_value = 0

\* ------------------------------------ runs that use the conversation cache
\* the number of ids uuid4 has handed out, to sessions and to runs
drawn == next_id + Cardinality({r \in Runs : conversation_id[r] # NoId})

new_conversation_id_shared(n) == uuid4(0)

\* conversation_id = str(uuid.uuid4()), the n+1-th call of uuid4
new_conversation_id(n) == uuid4(n)

\* three callers, requests with and without audio, a recognizer that fails,
\* hears nothing, hears a sentence or hears too much, a generator that
\* answers or is rate limited
DialogueEnv ==
    [clients  |-> Runs \cap (1..3),
     requests |-> { [filename |-> wav, data_len |-> 1],
                    [filename |-> wav, data_len |-> 0] },
     stt      |-> { Raise("RuntimeError", <<"MODEL_NOT_LOADED">>),
                    SttRet(Text(2, 0, 0), 1000),
                    SttRet(Text(1, 3, 1), 1000),
                    SttRet(Text(0, MAX_MESSAGE_LENGTH + 1, 0), 1000) },
     llm      |-> { Raise("RuntimeError", <<"ErrorCode", "LLM_RATE_LIMITED">>),
                    LlmRet(Text(0, 5, 0)) },
     tts      |-> { TtsRet },
     max_conversations |-> {1, MAX_CONVERSATIONS}]

\* process_dialogue up to its first await, with the id it draws
DialogueStart(r) ==
    /\ pc[r] = "idle"
    /\ r \in env.clients
    /\ conversation_id' =
           [conversation_id EXCEPT ![r] = new_conversation_id(drawn)]
    /\ \E request \in env.requests :
         LET e == precondition_error(request, stt_ready, llm_configured,
                                     tts_ready)
         IN  /\ req' = [req EXCEPT ![r] = request]
             /\ IF e # ""
                THEN /\ pc' = [pc EXCEPT ![r] = "done"]
                     /\ result' = [result EXCEPT ![r] =
                                     OrchestratorError(e, NoDetails, NoRetry)]
                     /\ UNCHANGED <<sem_vars, queued, acquired, calls>>
                ELSE IF ~locked(sem_value, sem_waiters)
                THEN /\ sem_value' = sem_value - 1
                     /\ acquired' = [acquired EXCEPT ![r] = @ + 1]
                     /\ calls' = [calls EXCEPT ![r] = Append(@, "transcribe")]
                     /\ pc' = [pc EXCEPT ![r] = "stt"]
                     /\ UNCHANGED <<sem_waiters, queued, result>>
                ELSE /\ sem_waiters' = Append(sem_waiters, r)
                     /\ queued' = [queued EXCEPT ![r] = TRUE]
                     /\ pc' = [pc EXCEPT ![r] = "waiting"]
                     /\ UNCHANGED <<sem_value, acquired, calls, result>>
    /\ UNCHANGED <<base_vars, health_vars, pools, inner, prompts, cache_vars,
                   ws_vars, waited, released, ret_vars>>

\* what an add_message call of run r does to the cache
RunAddMessage(r, role, content) ==
    LET id == conversation_id[r]
        c == add_message(cache, id, role, content, now, ttl,
                         max_conversations, max_messages)
    IN  /\ cache' = c
        /\ inserted' = Mixed
        /\ last' = [op |-> "add_message", id |-> id, ret |-> c[find(c, id)],
                    swept |-> swept(cache, now, ttl)]
        /\ UNCHANGED <<max_messages, max_conversations, ttl, now, log>>

\* transcribe returns or raises; the run validates and calls
\* generate_response, which appends the user turn to the conversation of the
\* run and builds the prompt before it awaits the API
DialogueSttReturn(r) ==
    /\ pc[r] = "stt"
    /\ \E b \in env.stt :
         LET o == after_transcribe(b, llm_configured)
         IN  /\ stt_ret' = [stt_ret EXCEPT ![r] = b]
             /\ llm_ret' = [llm_ret EXCEPT ![r] = o.next]
             /\ calls' = [calls EXCEPT ![r] = @ \o o.called]
             /\ IF o.res.kind # "none"
                THEN /\ Finish(r, o.res)
                     /\ UNCHANGED <<cache_vars, prompts>>
                ELSE /\ pc' = [pc EXCEPT ![r] = "llm"]
                     /\ RunAddMessage(r, "user", strip(b.text))
                     /\ prompts' = [prompts EXCEPT ![r] =
                            build_messages(
                                cache'[find(cache', conversation_id[r])]
                                    .messages)]
                     /\ UNCHANGED <<sem_vars, released, result>>
    /\ UNCHANGED <<base_vars, health_vars, pools, inner, conversation_id,
                   ws_vars, req, waited, queued, acquired, tts_ret>>

\* the API call of generate_response returns or raises; an answer is
\* appended as the assistant turn and the run calls synthesize
DialogueLlmReturn(r) ==
    /\ pc[r] = "llm"
    /\ \E b \in env.llm :
         LET o == after_generate(b, tts_ready)
         IN  /\ llm_ret' = [llm_ret EXCEPT ![r] = b]
             /\ tts_ret' = [tts_ret EXCEPT ![r] = o.next]
             /\ calls' = [calls EXCEPT ![r] = @ \o o.called]
             /\ IF b.kind = "raise"
                THEN UNCHANGED cache_vars
                ELSE RunAddMessage(r, "assistant", b.text)
             /\ IF o.res.kind # "none"
                THEN Finish(r, o.res)
                ELSE /\ pc' = [pc EXCEPT ![r] = "tts"]
                     /\ UNCHANGED <<sem_vars, released, result>>
    /\ UNCHANGED <<base_vars, health_vars, dialogue_vars, ws_vars, req,
                   waited, queued, acquired, stt_ret>>

\* a server with every service ready that admits two runs; a cache with room
\* for one conversation or for a thousand
InitDialogue ==
    /\ env = DialogueEnv
    /\ stt_ready = TRUE
    /\ llm_configured = TRUE
    /\ tts_ready = TRUE
    /\ max_concurrent = 2
    /\ InitRuns
    /\ StatusIdle
    /\ WsIdle
    /\ cache = <<>>
    /\ max_messages = MAX_CONVERSATION_MESSAGES
    /\ max_conversations \in DialogueEnv.max_conversations
    /\ ttl = CONVERSATION_TTL_MINUTES
    /\ now = 0
    /\ log = [i \in ConversationIds |-> <<>>]
    /\ inserted = [only |-> TRUE, ids |-> <<>>]
    /\ last = NoCall

NextDialogue ==
    \/ \E r \in Runs : DialogueStart(r)
    \/ Tick
    \/ \E r \in Runs : Resume(r)
    \/ \E r \in Runs : TimeoutWaiting(r)
    \/ \E r \in Runs : TimeoutWoken(r)
    \/ \E r \in Runs : DialogueSttReturn(r)
    \/ \E r \in Runs : DialogueLlmReturn(r)
    \/ \E r \in Runs : TtsReturn(r)

SpecDialogue == InitDialogue /\ [][NextDialogue]_vars

\* the runs whose generate_response call got as far as the cache
Generating == {r \in Runs : prompts[r] # <<>>}

\* C33: the runs that reach generation use pairwise different conversation
\* ids; the prompt of a run is the system prompt followed by one user turn,
\* the text this run recognized; only those runs have added a conversation
\* to the cache.
C33_FreshConversationPerRun ==
    /\ \A r, q \in Generating :
           r # q => conversation_id[r] # conversation_id[q]
    /\ \A r \in Generating :
           prompts[r] = <<SYSTEM_PROMPT,
                          [role |-> "user",
                           content |-> strip(stt_ret[r].text)]>>
    /\ \A r \in Runs :
           pc[r] \in {"llm", "tts"} \/ (Done(r) /\ Len(calls[r]) >= 2
                                               /\ llm_ret[r].kind = "ret")
               => r \in Generating
    /\ ids(cache) \subseteq {conversation_id[r] : r \in Generating}
    /\ Len(cache) <= Cardinality(Generating)

\* C33 witness: one run ended before generation; another succeeded and its
\* conversation is still cached while a third is at the API with its own
C33_Witness ==
    \E r1, r2, r3 \in Runs :
        /\ Done(r1) /\ r1 \notin Generating /\ calls[r1] = <<"transcribe">>
        /\ Succeeded(r2) /\ r2 \in Generating
        /\ pc[r3] = "llm" /\ r3 \in Generating
        /\ conversation_id[r2] \in ids(cache)
        /\ conversation_id[r3] \in ids(cache)

\* ------------------------------------------- the endpoint of one session
\* one session, its endpoint and one more task that uses the manager
LifecycleEnv == [sessions |-> 1, callers |-> 2, sends |-> 2]

InitLifecycle == InitWsOf(LifecycleEnv)

SpecLifecycle == InitLifecycle /\ [][NextEndpoint]_vars

\* the event loop runs every task that is ready, and a write to the
\* transport comes back, with or without a fault
FairLifecycle ==
    /\ \A t \in 1..LifecycleEnv.callers :
         /\ WF_vars(Wake(t))
         /\ WF_vars(\E ok \in BOOLEAN : WriteDone(t, ok))
    /\ \A s \in 0..LifecycleEnv.sessions :
         /\ WF_vars(PingCancelled(s))
         /\ WF_vars(PingWake(s))
         /\ WF_vars(PingTornDown(s))

LiveSpecLifecycle == SpecLifecycle /\ FairLifecycle

\* the receive loop of the endpoint of s has ended in task t: the task is
\* writing the error that is not recoverable, or it is inside disconnect
LoopEnded(t, s) ==
    /\ caller[t].pc \in {"send_json", "await_ping"}
    /\ caller[t].sid = s
    /\ \/ caller[t].op = "disconnect"
       \/ caller[t].op = "frame" /\ ~caller[t].recoverable

\* C34: once the receive loop of a session has ended, through a disconnect
\* of the client or through an exception, the session is eventually out of
\* the connection registry with its heartbeat task finished; and a disconnect
\* that has returned has left it so.
C34_EndpointEndTearsDown ==
    /\ \A t \in 1..LifecycleEnv.callers, s \in 0..LifecycleEnv.sessions :
           LoopEnded(t, s) ~> (s \notin connections /\ task_done(ping, s))
    /\ [][(returned' # returned /\ returned'.op \in {"disconnect", "frame"}
              /\ (returned'.op = "frame" => ~returned'.receiving)) =>
             /\ returned'.sid \notin connections'
             /\ task_done(ping', returned'.sid)]_vars

\* C34 witness: the endpoint is inside disconnect, waiting for a heartbeat
\* that was cancelled in the middle of a ping write
C34_Witness ==
    \E t \in DOMAIN caller :
        /\ caller[t].pc = "await_ping"
        /\ caller[t].op = "disconnect"
        /\ caller[t].sid \in connections
        /\ ping[caller[t].sid].pc = "send_json"
        /\ ping[caller[t].sid].must_cancel

\* C35: a heartbeat whose ping write failed tears its session down itself
\* and ends without a fault: when its disconnect is over the session is in
\* neither registry, send_message has returned False to the loop and the
\* task is done; it always gets there; and from the failed write on the task
\* never writes a ping again.
C35_HeartbeatTearsItselfDown ==
    /\ \A s \in 0..LifecycleEnv.sessions :
           (ping[s].pc = "await_self") ~>
               (ping[s].pc = "done" /\ s \notin connections
                                    /\ s \notin ping_tasks)
    /\ [][\A s \in DOMAIN ping :
            /\ (ping[s].pc = "await_self" /\ ping'[s].pc # "await_self") =>
                   /\ ping'[s].pc = "done"
                   /\ s \notin connections' /\ s \notin ping_tasks'
                   /\ returned'.op = "send_message" /\ returned'.sid = s
                   /\ returned'.wrote = "failed" /\ returned'.val = "False"
            /\ (ping[s].pc = "send_json" /\ ping'[s].pc = "done"
                    /\ returned' # returned /\ returned'.wrote = "failed") =>
                   /\ s \notin connections' /\ s \notin ping_tasks'
                   /\ returned'.val = "False"
            /\ (ping[s].pc = "send_json" /\ ~ping[s].must_cancel
                    /\ ping'[s].pc = "await_self") =>
                   s \in connections /\ s \in ping_tasks
            /\ (s \notin connections /\ ping[s].pc # "send_json") =>
                   ping'[s].pc # "send_json"
            /\ (s \notin connections /\ sent[s] # NoWrites) =>
                   s \notin connections']_vars

\* C35 witness: the heartbeat has finished its own teardown after a failed
\* ping while another task, which called disconnect meanwhile, still waits
\* for it
C35_Witness ==
    \E s \in DOMAIN ping, t \in DOMAIN caller :
        /\ ping[s].pc = "done"
        /\ returned.op = "send_message" /\ returned.sid = s
        /\ returned.wrote = "failed" /\ returned.val = "False"
        /\ returned.torn
        /\ Len(sent[s].calls) >= 2
        /\ caller[t].pc = "await_ping" /\ caller[t].sid = s

CacheClear(id) ==
    LET o == clear(cache, id, now, ttl)
    IN  /\ cache' = o.cache
        /\ log' = kept_log(o.cache, {})
        /\ history' = kept_history(o.cache, {})
        /\ inserted' = Mixed
        /\ last' = [op |-> "clear", id |-> id, ret |-> o.ret,
                    swept |-> ids(cache) \ (ids(o.cache) \cup {id})]
        /\ UNCHANGED <<max_messages, max_conversations, ttl, now, base_vars,
                       llm_client, llm_last_error, tts_last_error, status,
                       generate, dialogue_vars, ws_vars, run_vars>>

\* ConversationCache.get_or_create from another caller
CacheGetOrCreate(id) ==
    LET c == get_or_create(cache, id, now, ttl, max_conversations)
        created == id \notin ids(_cleanup_expired(cache, now, ttl))
        fresh == IF created THEN {id} ELSE {}
    IN  /\ cache' = c
        /\ log' = kept_log(c, fresh)
        /\ history' = kept_history(c, fresh)
        /\ inserted' = Mixed
        /\ last' = [op |-> "get_or_create", id |-> id,
                    ret |-> c[find(c, id)], swept |-> swept(cache, now, ttl)]
        /\ UNCHANGED <<max_messages, max_conversations, ttl, now, base_vars,
                       llm_client, llm_last_error, tts_last_error, status,
                       generate, dialogue_vars, ws_vars, run_vars>>

NextLlmCache ==
    \/ NextLlm
    \/ \E id \in env.ids : CacheClear(id)
    \/ \E id \in env.ids : CacheGetOrCreate(id)

\* two conversations of one call each, a cache with room for one or two,
\* records expiring when older than one tick
LlmCacheEnv == [ids |-> {"A", "B"}, max_messages |-> {4},
                max_conversations |-> {1, 2}, ttl |-> {1}, appends |-> 2,
                clock |-> 2]

InitLlmCache ==
    /\ env = LlmCacheEnv
    /\ max_concurrent = 1
    /\ InitRuns
    /\ stt_ready = FALSE
    /\ llm_configured = TRUE
    /\ tts_ready = FALSE
    /\ StatusIdle
    /\ WsIdle
    /\ cache = <<>>
    /\ max_messages \in LlmCacheEnv.max_messages
    /\ max_conversations \in LlmCacheEnv.max_conversations
    /\ ttl \in LlmCacheEnv.ttl
    /\ now = 0
    /\ log = [i \in ConversationIds |-> <<>>]
    /\ inserted = [only |-> TRUE, ids |-> <<>>]
    /\ last = NoCall

SpecLlmCache == InitLlmCache /\ [][NextLlmCache]_vars

\* the record to which the call at the API appended its user turn is not
\* cached any more: its id is absent or expired, or belongs to a record
\* created since
Removed ==
    LET c1 == SelectSeq(cache, LAMBDA v : now - v.updated_at <= ttl)
    IN  \/ generate.id \notin ids(c1)
        \/ LET m == c1[find(c1, generate.id)].messages
           IN  m = <<>> \/ m[Len(m)] # generate.message

\* C37: when the API call of generate_response returns an answer and the
\* record of the conversation was removed meanwhile, the conversation is
\* cached afterwards with the assistant turn as its only turn.
C37_ReplyAloneAfterRemoval ==
    [][(/\ generate.pc = "api"
        /\ generate'.pc = "idle" /\ generate'.out = "ok"
        /\ Removed) =>
           /\ generate.id \in ids(cache')
           /\ LET v == cache'[find(cache', generate.id)]
              IN  /\ Len(v.messages) = 1
                  /\ v.messages[1].role = "assistant"
                  /\ v.updated_at = now
                  /\ last'.ret = v]_vars

\* C37 witness: after an answered call a conversation holds one turn, the
\* assistant's, and another conversation, whose creation evicted the first
\* record of that conversation, is cached beside it
C37_Witness ==
    /\ generate = [pc |-> "idle", out |-> "ok"]
    /\ last.op = "add_message"
    /\ Len(last.ret.messages) = 1
    /\ last.ret.messages[1].role = "assistant"
    /\ Len(cache) = 1
    /\ max_conversations = 1
    /\ now = 0
    /\ cache[1] = last.ret


\* ------------------------------------------- a call that ends with an error
\* generate_response raises before it has touched the cache
CallRejected ==
    \E id \in env.ids, kind \in MessageKinds :
        GenerateResponse(id, kind) /\ generate'.pc = "idle"

\* _call_openai raises out of generate_response
ApiFailed ==
    generate.pc = "api" /\ generate'.pc = "idle"
        /\ generate'.out = "RuntimeError"

\* C38: a call whose API request fails leaves the cache as it was during
\* the request, the user turn it appended still being the last turn of the
\* conversation; a call refused by the checks on the service and on the
\* message leaves the cache unchanged
C38_FailureKeepsUserTurn ==
    [][/\ ApiFailed =>
              /\ cache' = cache
              /\ generate.id \in ids(cache')
              /\ LET m == cache'[find(cache', generate.id)].messages
                 IN  m # <<>> /\ m[Len(m)] = generate.message
       /\ CallRejected => cache' = cache]_vars

\* a call was refused by a check after an earlier call had failed at the
\* API: the user turn of the failed call is still the last turn of its
\* conversation
C38_Witness ==
    /\ generate.pc = "idle"
    /\ generate.out \in {"LLM_NOT_CONFIGURED", "EMPTY_MESSAGE",
                         "MESSAGE_TOO_LONG"}
    /\ \E i \in 1..Len(cache) :
           /\ cache[i].messages # <<>>
           /\ cache[i].messages[Len(cache[i].messages)].role = "user"
           /\ ~history[cache[i].id].ok


\* ------------------------------------------ transcripts of every kind
\* two callers; the recognizer returns no text, blanks or words, each with a
\* duration below, within and above the bounds
TranscriptEnv ==
    [clients  |-> Runs \cap (1..2),
     requests |-> { [filename |-> wav, data_len |-> 1] },
     stt      |-> { SttRet(Text(l, b, 0), d) :
                      l \in {0, 2}, b \in {0, 3},
                      d \in { ORCHESTRATOR_MIN_AUDIO_DURATION - 1, 1000,
                              ORCHESTRATOR_MAX_AUDIO_DURATION + 1 } },
     llm      |-> { LlmRet(Text(0, 5, 0)) },
     tts      |-> { TtsRet }]

InitTranscripts ==
    /\ env = TranscriptEnv
    /\ stt_ready = TRUE
    /\ llm_configured = TRUE
    /\ tts_ready = TRUE
    /\ max_concurrent = 1
    /\ InitRuns
    /\ StatusIdle
    /\ CacheIdle
    /\ WsIdle

SpecTranscripts == InitTranscripts /\ [][Next]_vars

\* the recognizer gave run r a text that is empty once trimmed, with a
\* duration outside the bounds
EmptyAndOutOfBounds(r) ==
    /\ stt_ret[r].kind = "ret"
    /\ len(strip(stt_ret[r].text)) = 0
    /\ \/ stt_ret[r].duration_ms < ORCHESTRATOR_MIN_AUDIO_DURATION
       \/ stt_ret[r].duration_ms > ORCHESTRATOR_MAX_AUDIO_DURATION

\* C39: a run whose transcript is empty after trimming and whose duration is
\* outside the bounds ends with SPEECH_RECOGNITION_FAILED, not with
\* AUDIO_TOO_SHORT or AUDIO_TOO_LONG, and calls no later stage
C39_EmptyTextBeforeDuration ==
    \A r \in Runs :
        EmptyAndOutOfBounds(r) =>
            /\ Failed(r, "SPEECH_RECOGNITION_FAILED")
            /\ calls[r] = <<"transcribe">>

\* one run got blanks with a duration above the bounds, another no text with
\* a duration below them
C39_Witness ==
    \E r, q \in Runs :
        /\ Failed(r, "SPEECH_RECOGNITION_FAILED")
        /\ stt_ret[r] = SttRet(Text(2, 0, 0),
                               ORCHESTRATOR_MAX_AUDIO_DURATION + 1)
        /\ Failed(q, "SPEECH_RECOGNITION_FAILED")
        /\ stt_ret[q] = SttRet(Text(0, 0, 0),
                               ORCHESTRATOR_MIN_AUDIO_DURATION - 1)


\* ------------------------------------------- the acknowledgement of connect
\* endpoints that connect and start heartbeats; no task sends to a session or
\* disconnects it, so that a session leaves the registry only through a
\* write that failed
AckEnv == [sessions |-> 2, callers |-> 2, sends |-> 3]

InitAck == InitWsOf(AckEnv)

NextAck ==
    \/ \E t \in DOMAIN caller : Connect(t)
    \/ \E t \in DOMAIN caller, s \in DOMAIN ping : StartPingLoop(t, s)
    \/ \E t \in DOMAIN caller, ok \in BOOLEAN : WriteDone(t, ok)
    \/ \E t \in DOMAIN caller : Wake(t)
    \/ \E s \in DOMAIN ping : PingCancelled(s)
    \/ \E s \in DOMAIN ping : PingWake(s)
    \/ \E s \in DOMAIN ping, ok \in BOOLEAN : PingWriteDone(s, ok)
    \/ \E s \in DOMAIN ping : PingTornDown(s)

SpecAck == InitAck /\ [][NextAck]_vars

\* the event loop runs every heartbeat task that is ready
FairAck ==
    \A s \in 1..AckEnv.sessions :
        WF_vars(PingCancelled(s)) /\ WF_vars(PingWake(s))

LiveSpecAck == SpecAck /\ FairAck

\* the acknowledgement was the only write to the transport of s and s has
\* left the registry: the write failed and connect is over
AckFailed(s) ==
    /\ s \in 1..next_id
    /\ s \notin connections
    /\ Len(sent[s].calls) = 1

\* C40: a connect whose acknowledgement write failed is over with its id out
\* of the connection registry; the id stays out and its transport is handed
\* nothing more, and a heartbeat started for it afterwards ends without
\* having sent a ping
C40_FailedAckLeavesNoSession ==
    /\ [](returned.op = "connect" /\ returned.wrote = "failed" =>
              returned.sid \notin connections)
    /\ [][\A s \in 1..AckEnv.sessions :
              AckFailed(s) => sent'[s] = sent[s] /\ s \notin connections']_vars
    /\ \A s \in 1..AckEnv.sessions :
           (AckFailed(s) /\ ping[s].pc = "ready") ~>
               (AckFailed(s) /\ ping[s].pc = "done")

\* start_ping_loop has returned for the id of a connect whose acknowledgement
\* failed, and the heartbeat it created has ended
C40_Witness ==
    /\ returned.op = "start_ping_loop"
    /\ AckFailed(returned.sid)
    /\ returned.sid \in ping_tasks
    /\ ping[returned.sid] = [pc |-> "done", must_cancel |-> FALSE, loops |-> 0]
    /\ sent[returned.sid].first.type = "connection_ack"

====
